---- MODULE Spec2Model ----
(***************************************************************************)
(* Tiled capture engine of the full-page-screenshot extension.             *)
(*                                                                         *)
(* The content script (src/contents/screenshot-handler.ts) runs the        *)
(* captures; the background service worker (src/background.ts) answers     *)
(* every "capture-visible-area" request of a tab with "screenshot-captured"*)
(* or "screenshot-error".  A step of the model is one event-loop task of   *)
(* the content script (the synchronous code between two awaits, or the     *)
(* dispatch of one message to every registered listener) or one reply of   *)
(* the background.                                                         *)
(***************************************************************************)
EXTENDS Integers, Sequences, FiniteSets, TLC

VARIABLES
  geo,                    \* document and window sizes: pageW, pageH, vpW, vpH
  scroll,                 \* window.scrollX, window.scrollY
  isCapturing,            \* FullPageScreenshot.isCapturing
  screenshots,            \* FullPageScreenshot.screenshots
  originalScrollPosition, \* FullPageScreenshot.originalScrollPosition
  listeners,              \* chrome.runtime.onMessage listeners, in registration order
  full,                   \* the calls of captureFullPage
  view,                   \* the calls of captureVisibleAreaOverlay
  region,                 \* the calls of captureRegion
  bgq,                    \* capture-visible-area requests the background has not answered
  inbox,                  \* replies of the background on their way to the tab
  faults,                 \* the error replies of the capture primitive so far
  delivered,              \* history: the replies that have reached the tab
  sel,                    \* region selection: regionActive, regionStart, regionCurrent, listeners
  ws,                     \* a call of waitForScroll
  clip,                   \* the background: calls of copyToClipboardInBackground, the offscreen document
  overlay,                \* the result overlays of showResultOverlay
  route                   \* the popup, and the messages on their way to the background and to the tab

vars == <<geo, scroll, isCapturing, screenshots, originalScrollPosition,
          listeners, full, view, region, bgq, inbox, faults, delivered, sel, ws,
          clip, overlay, route>>

(***************************************************************************)
(* Bounds of the model.                                                    *)
(***************************************************************************)
MaxFull == 2      \* calls of captureFullPage in one behaviour
MaxView == 2      \* calls of captureVisibleAreaOverlay in one behaviour
MaxRegion == 1    \* calls of captureRegion in one behaviour
MaxErrors == 1    \* replies of the capture primitive that are errors
MaxSelections == 2 \* region selections started in one behaviour
MaxClip == 2      \* calls of copyToClipboardInBackground in one behaviour
MaxOverlays == 2  \* result overlays shown in one behaviour
MaxDownloads == 2 \* clicks on Download of one overlay
MaxCopies == 2    \* clicks on Copy of one overlay
MaxClicks == 3    \* clicks on the buttons of the popup, and keyboard commands
MaxTabs == 2      \* tabs whose content script asks for a clipboard copy
MaxOther == 2     \* capture-visible-area requests of the other tabs

(***************************************************************************)
(* Program constants.                                                      *)
(***************************************************************************)
WaitLimitMs == 30000      \* while (... && waitTime < 30000)
WaitStepMs == 500         \* await this.sleep(500); waitTime += 500
ViewTolerance == 5        \* Math.abs(...) <= 5 in captureCurrentView
TileTolerance == 5        \* Math.abs(...) < 5 in captureTile
MinSelection == 5         \* rect.width < 5 || rect.height < 5
SettleMs == 300           \* await this.sleep(300) before a full-page request
PaceMs == 700             \* await this.sleep(700) after a full-page request
TileSettleMs == 250       \* await this.sleep(250) before a region tile request
TilePaceMs == 650         \* await this.sleep(650) after a region tile response
MaxAttempts == 60         \* const maxAttempts = 60 of waitForScroll
ScrollTolerance == 10     \* Math.abs(currentX - targetX) < 10

QuotaToken == "MAX_CAPTURE_VISIBLE_TAB_CALLS_PER_SECOND"
RateLimitError == <<"This request exceeds the", QuotaToken, "quota.">>
OtherError == <<"Failed to capture tab">>

Min(a, b) == IF a < b THEN a ELSE b
Max(a, b) == IF a > b THEN a ELSE b
Abs(a) == IF a < 0 THEN -a ELSE a

\* String.prototype.includes on an error message, a message being its tokens
Includes(msg, token) == \E i \in 1..Len(msg) : msg[i] = token

\* Math.ceil(a / b) for a >= 0, b > 0
CeilDivFloor(a, b) == a \div b
CeilDiv(a, b) == (a + b - 1) \div b

\* Math.floor(a / b) for a >= 0, b > 0
FloorDiv(a, b) == a \div b

FullIds == 1..MaxFull
ViewIds == 1..MaxView
RegionIds == 1..MaxRegion
ClipIds == 1..MaxClip
Tabs == 1..MaxTabs

\* sender.tab.id of the tab whose content script runs the captures
ContentTab == 1
OverlayIds == 1..MaxOverlays

(***************************************************************************)
(* The scrollable surface: window.scrollTo clamps to the scrollable range. *)
(***************************************************************************)
MaxScrollX == Max(0, geo.pageW - geo.vpW)
MaxScrollY == Max(0, geo.pageH - geo.vpH)
ScrollTo(x, y) == <<Min(Max(x, 0), MaxScrollX), Min(Max(y, 0), MaxScrollY)>>

(***************************************************************************)
(* Initial records of the calls.                                           *)
(***************************************************************************)
NoShot == [src |-> <<"none", 0, 0>>, pos |-> <<0, 0>>]
NoError == [kind |-> "none", captured |-> 0, total |-> 0, msg |-> <<>>]

IdleFull ==
  [pc |-> "idle", rows |-> 0, cols |-> 0, expected |-> 0, row |-> 0, col |-> 0,
   capturedCount |-> 0, counted |-> <<>>, waitTime |-> 0, log |-> <<>>, i |-> 0, cur |-> NoShot,
   canvas |-> <<0, 0>>, draws |-> <<>>, error |-> NoError, ret |-> "pending",
   events |-> <<>>, gap |-> 0, gaps |-> <<>>]

\* mode is the method that was called: "overlay" for
\* captureVisibleAreaOverlay, "clipboard" for captureVisibleArea; copy is the
\* snapshot that captureVisibleArea hands to copyToClipboard
IdleView ==
  [pc |-> "idle", pos |-> <<0, 0>>, timer |-> FALSE, backoff |-> FALSE,
   attempts |-> 0,
   appended |-> <<>>, rateLimited |-> 0, shown |-> NoShot.src, error |-> <<>>,
   mode |-> "none", copy |-> NoShot.src]

IdleRegion ==
  [pc |-> "idle", rect |-> [x |-> 0, y |-> 0, width |-> 0, height |-> 0],
   original |-> <<0, 0>>, shotAt |-> <<0, 0>>,
   xTiles |-> <<>>, yTiles |-> <<>>, xi |-> 1, yi |-> 1, log |-> <<>>,
   tiles |-> <<>>, capturedTiles |-> 0, draws |-> <<>>, shown |-> FALSE,
   error |-> <<>>, events |-> <<>>, gap |-> 0, gaps |-> <<>>, calls |-> 0]

\* Region selection before startRegionSelection: regionActive, the four
\* document listeners of createRegionOverlay, regionStart, regionCurrent, the
\* rectangle shown by regionSelectionBox, how the last selection mode ended
\* and the number of selections started
Null == <<>>
IdleSelection ==
  [active |-> FALSE, listening |-> FALSE, start |-> Null, current |-> Null,
   box |-> Null, ended |-> "none", sessions |-> 0]

\* waitForScroll before a call: its target, its attempts, the number of runs of
\* checkScroll and the position the last run read
IdleWait ==
  [pc |-> "idle", target |-> <<0, 0>>, attempts |-> 0, checks |-> 0,
   seen |-> <<0, 0>>]

\* A call of copyToClipboardInBackground before it starts: whether its
\* createDocument has succeeded, whether closeDocument was invoked after that,
\* what the offscreen document answered within the 10 s, the value of the
\* Promise.race, how the call ended and what it returned; sender.tab.id of
\* the request it serves and the number of that request
Undefined == [defined |-> FALSE, success |-> FALSE]
IdleCopy ==
  [pc |-> "idle", created |-> FALSE, tornDown |-> FALSE, answered |-> "none",
   response |-> Undefined, outcome |-> "none", ret |-> "pending",
   tab |-> 0, request |-> 0]

\* The background before a clipboard request: whether chrome.offscreen exists,
\* whether the browser keeps the channel of sendResponse open for the async
\* listener of the offscreen document, the call whose offscreen document
\* exists (0: there is none) and the calls; the tabs that have sent
\* copy-to-clipboard, in the order of their requests, the requests the
\* background has not received, the messages of the background on their way
\* to the tabs, those the tabs have received, and the notifications each
\* content script has shown
IdleClip(api, channel) ==
  [api |-> api, channel |-> channel, doc |-> 0,
   calls |-> [id \in ClipIds |-> IdleCopy],
   asked |-> <<>>, requests |-> {}, replies |-> {}, received |-> {},
   notes |-> [tab \in Tabs |-> <<>>]]

\* A result overlay before showResultOverlay creates it
IdleOverlay ==
  [pc |-> "idle", filenameBase |-> "", dataUrl |-> "", open |-> FALSE,
   copyDisabled |-> FALSE, copyText |-> "Copy", status |-> "",
   writes |-> 0, attempts |-> 0, failures |-> 0, copied |-> 0,
   removeTimer |-> FALSE, removedBy |-> "none", downloads |-> <<>>]

\* The popup before a click: the clicks and keyboard commands so far, how many
\* of them asked for a full-page and for a region capture, the messages on
\* their way to the background and to the tab, and the messages the listener
\* of the content script has handled; the capture-visible-area requests that
\* the content scripts of other tabs have sent, and the answers they got
IdleRoute ==
  [clicks |-> 0, fulls |-> 0, regions |-> 0, toBackground |-> {}, toTab |-> {},
   handled |-> {}, snapshots |-> <<>>, got |-> {}]

\* The geometries the model starts from: a 10 x 10 viewport, pages of one or
\* two tiles on each axis, whole multiples of the viewport and not.
Geometry(w, h) == [pageW |-> w, pageH |-> h, vpW |-> 10, vpH |-> 10, dpr |-> 2]

Geometries == {Geometry(10, 10), Geometry(16, 10), Geometry(10, 20), Geometry(16, 16)}

\* A page of one tile, for overlapping calls of captureFullPage
SmallGeometries == {Geometry(10, 10)}

\* Pages of three and of six tiles
LargeGeometries == {Geometry(10, 30), Geometry(26, 16)}

\* A page that scrolls by 6 px on both axes
ScrollGeometries == {Geometry(16, 16)}

InitCapture(geometries) ==
  /\ geo \in geometries
  /\ scroll = <<0, 0>>
  /\ isCapturing = FALSE
  /\ screenshots = <<>>
  /\ originalScrollPosition = <<0, 0>>
  /\ listeners = <<>>
  /\ full = [id \in FullIds |-> IdleFull]
  /\ view = [id \in ViewIds |-> IdleView]
  /\ region = [id \in RegionIds |-> IdleRegion]
  /\ bgq = {}
  /\ inbox = {}
  /\ faults = 0
  /\ delivered = {}
  /\ sel = IdleSelection
  /\ ws = IdleWait
  /\ overlay = [id \in OverlayIds |-> IdleOverlay]
  /\ route = IdleRoute

InitWith(geometries) ==
  /\ InitCapture(geometries)
  /\ clip = IdleClip(TRUE, "open")

Init == InitWith(Geometries)

\* Remove one listener from the registration list
RECURSIVE Without(_, _)
Without(ls, l) ==
  IF ls = <<>> THEN <<>>
  ELSE IF Head(ls) = l THEN Tail(ls)
  ELSE <<Head(ls)>> \o Without(Tail(ls), l)

\* The calls start in the order of their identifiers
NextIdle(calls, ids, id) ==
  /\ calls[id].pc = "idle"
  /\ \A j \in ids : j < id => calls[j].pc # "idle"

\* History of a tiled capture: what it did, and for which tile origin
Event(e, at) == [e |-> e, at |-> at]

\* sleep(ms) is over: the time that has passed since the call's last request
\* has grown by at least ms
ElapseNone(gap, ms) == gap
Elapse(gap, ms) == gap + ms

\* The awaits before a tile's request are over: waitForScroll has resolved and
\* the render delay has been started
SettledEarly(pc) == pc \in {"settling", "rendering", "rsettling", "rrendering"}
Settled(pc) == pc \in {"rendering", "rrendering"}

(***************************************************************************)
(* captureFullPage                                                         *)
(***************************************************************************)
TileOrigin(row, col) == <<col * geo.vpW, row * geo.vpH>>

\* const verticalScreenshots = Math.ceil(pageHeight / viewportHeight), and
\* horizontalScreenshots: the code puts no limit on them
VerticalScreenshotsCapped == Min(CeilDiv(geo.pageH, geo.vpH), 2)
VerticalScreenshots == CeilDiv(geo.pageH, geo.vpH)
HorizontalScreenshots == CeilDiv(geo.pageW, geo.vpW)

\* "capture-full-page" reaches the tab: captureFullPage runs up to its first
\* await, the waitForScroll of tile (0, 0).
CaptureFullPage(id) ==
  /\ NextIdle(full, FullIds, id)
  /\ isCapturing' = TRUE
  /\ screenshots' = <<>>
  /\ originalScrollPosition' = scroll
  /\ LET rows == VerticalScreenshots
         cols == HorizontalScreenshots
     IN  full' = [full EXCEPT ![id] =
                    [@ EXCEPT !.pc = "settling", !.rows = rows, !.cols = cols,
                              !.expected = rows * cols, !.row = 0, !.col = 0,
                              !.events = <<Event("scrollTo", TileOrigin(0, 0))>>]]
  /\ listeners' = Append(listeners, <<"full", id>>)
  /\ scroll' = ScrollTo(0, 0)
  /\ UNCHANGED <<geo, view, region, bgq, inbox, faults, delivered, sel, ws,
                 clip, overlay>>

StartFullPage(id) == CaptureFullPage(id) /\ UNCHANGED route

\* waitForScroll has resolved: the 300 ms render delay starts
FullSettled(id) ==
  /\ full[id].pc = "settling"
  /\ LET f == full[id] IN
       full' = [full EXCEPT ![id] =
                  [f EXCEPT !.pc = "rendering",
                            !.events = Append(@, Event("scrolled", TileOrigin(f.row, f.col)))]]
  /\ UNCHANGED <<geo, scroll, isCapturing, screenshots, originalScrollPosition,
                 listeners, view, region, bgq, inbox, faults, delivered, sel, ws,
                 clip, overlay, route>>

\* The 300 ms render delay is over: the request is sent and the 700 ms pause
\* starts
FullRequest(id) ==
  /\ Settled(full[id].pc)
  /\ LET f == full[id]
         pos == TileOrigin(f.row, f.col)
         g == Elapse(f.gap, SettleMs)
     IN  /\ bgq' = bgq \cup {[pos |-> pos, req |-> <<"full", id, Len(f.log) + 1>>,
                              tab |-> ContentTab]}
         /\ full' = [full EXCEPT ![id] =
                       [@ EXCEPT !.pc = "paced", !.log = Append(@, pos),
                                 !.events = @ \o <<Event("settled", pos),
                                                   Event("request", pos)>>,
                                 !.gaps = IF Len(f.log) > 0 THEN Append(@, g) ELSE @,
                                 !.gap = 0]]
  /\ UNCHANGED <<geo, scroll, isCapturing, screenshots, originalScrollPosition,
                 listeners, view, region, inbox, faults, delivered, sel, ws,
                 clip, overlay, route>>

\* new Error(`Timeout: Only captured ${k}/${N} screenshots`)
TimeoutErrorSwapped(k, n) ==
  [kind |-> "Timeout", captured |-> n, total |-> k,
   msg |-> <<"Timeout: Only captured", "screenshots">>]
TimeoutError(k, n) ==
  [kind |-> "Timeout", captured |-> k, total |-> n,
   msg |-> <<"Timeout: Only captured", "screenshots">>]

\* The test of the catch block of captureFullPage that selects the fallback
IsRateLimitFailure(err) ==
  Includes(err.msg, QuotaToken) \/ Includes(err.msg, "rate limit")

\* The head of the loop of combineAndCopyScreenshots, for index i: either the
\* next image starts loading or the canvas is exported and captureFullPage
\* returns the data URL through its finally block.
FullCombineFrom(f, i, shots) ==
  IF i < Len(shots)
  THEN [f EXCEPT !.pc = "combining", !.i = i, !.cur = shots[i + 1]]
  ELSE [f EXCEPT !.pc = "done", !.i = i, !.ret = "dataUrl"]

\* The wait loop of captureFullPage at its test, with f the call's record:
\* keep waiting, throw the timeout, or go on to the composition.
FullAfterWait(id, f) ==
  IF f.capturedCount < f.expected /\ f.waitTime < WaitLimitMs
  THEN /\ full' = [full EXCEPT ![id] = [f EXCEPT !.pc = "waiting"]]
       /\ UNCHANGED <<listeners, scroll, isCapturing, screenshots>>
  ELSE IF f.capturedCount < f.expected
  THEN LET err == TimeoutError(f.capturedCount, f.expected)
       IN  /\ listeners' = Without(listeners, <<"full", id>>)
           /\ IF IsRateLimitFailure(err)
              THEN /\ full' = [full EXCEPT ![id] =
                                 [f EXCEPT !.pc = "fallback", !.error = err]]
                   /\ screenshots' = <<>>
                   /\ UNCHANGED isCapturing
              ELSE /\ full' = [full EXCEPT ![id] =
                                 [f EXCEPT !.pc = "failed", !.error = err,
                                           !.ret = "null"]]
                   /\ isCapturing' = FALSE
                   /\ UNCHANGED screenshots
           /\ UNCHANGED scroll
  ELSE LET g == FullCombineFrom([f EXCEPT !.canvas = <<geo.pageW, geo.pageH>>],
                                0, screenshots)
       IN  /\ listeners' = Without(listeners, <<"full", id>>)
           /\ scroll' = ScrollTo(originalScrollPosition[1], originalScrollPosition[2])
           /\ full' = [full EXCEPT ![id] = g]
           /\ isCapturing' = IF g.pc = "done" THEN FALSE ELSE isCapturing
           /\ UNCHANGED screenshots

\* The 700 ms pause after a request is over: the next tile is scrolled to, or
\* the loops are finished and the wait for the responses begins.
FullAdvance(id) ==
  /\ full[id].pc = "paced"
  /\ LET f == [full[id] EXCEPT !.gap = Elapse(@, PaceMs)] IN
       IF f.col + 1 < f.cols
       THEN /\ full' = [full EXCEPT ![id] =
                          [f EXCEPT !.pc = "settling", !.col = @ + 1,
                                    !.events = Append(@, Event("scrollTo",
                                                 TileOrigin(f.row, f.col + 1)))]]
            /\ scroll' = ScrollTo(TileOrigin(f.row, f.col + 1)[1],
                                  TileOrigin(f.row, f.col + 1)[2])
            /\ UNCHANGED <<listeners, isCapturing, screenshots>>
       ELSE IF f.row + 1 < f.rows
       THEN /\ full' = [full EXCEPT ![id] =
                          [f EXCEPT !.pc = "settling", !.row = @ + 1, !.col = 0,
                                    !.events = Append(@, Event("scrollTo",
                                                 TileOrigin(f.row + 1, 0)))]]
            /\ scroll' = ScrollTo(TileOrigin(f.row + 1, 0)[1],
                                  TileOrigin(f.row + 1, 0)[2])
            /\ UNCHANGED <<listeners, isCapturing, screenshots>>
       ELSE FullAfterWait(id, [f EXCEPT !.waitTime = 0])
  /\ UNCHANGED <<geo, originalScrollPosition, view, region, bgq, inbox, faults, delivered, sel, ws,
                 clip, overlay, route>>

\* One 500 ms sleep of the wait loop is over
FullPoll(id) ==
  /\ full[id].pc = "waiting"
  /\ FullAfterWait(id, [full[id] EXCEPT !.waitTime = @ + WaitStepMs])
  /\ UNCHANGED <<geo, originalScrollPosition, view, region, bgq, inbox, faults, delivered, sel, ws,
                 clip, overlay, route>>

\* combineAndCopyScreenshots: where screenshot number i of the list is drawn
CanvasPosition(i, shot) == <<0, i * geo.vpH>>

\* The image of screenshot i has loaded: it is drawn and the loop goes on
FullDraw(id) ==
  /\ full[id].pc = "combining"
  /\ LET f == full[id]
         at == CanvasPosition(f.i, f.cur)
         drawn == [f EXCEPT !.draws = Append(@, [src |-> f.cur.src, pos |-> f.cur.pos,
                                                 x |-> at[1], y |-> at[2],
                                                 w |-> geo.vpW, h |-> geo.vpH])]
         g == FullCombineFrom(drawn, f.i + 1, screenshots)
     IN  /\ full' = [full EXCEPT ![id] = g]
         /\ isCapturing' = IF g.pc = "done" THEN FALSE ELSE isCapturing
  /\ UNCHANGED <<geo, scroll, screenshots, originalScrollPosition, listeners,
                 view, region, bgq, inbox, faults, delivered, sel, ws,
                 clip, overlay, route>>

(***************************************************************************)
(* captureVisibleAreaOverlay and captureCurrentView                        *)
(***************************************************************************)
\* captureCurrentView(x, y): the 15 s timer is armed, messageHandler is
\* registered and the request is sent.
ViewArm(id, pos, mode) ==
  /\ view' = [view EXCEPT ![id] =
                [@ EXCEPT !.pos = pos, !.timer = TRUE, !.backoff = FALSE,
                          !.attempts = @ + 1, !.mode = mode,
                          !.pc = IF @ = "idle" THEN "awaiting" ELSE @]]
  /\ listeners' = Append(listeners, <<"view", id>>)
  /\ bgq' = bgq \cup {[pos |-> pos, req |-> <<"view", id, view[id].attempts + 1>>,
                        tab |-> ContentTab]}

\* if (this.isCapturing) of captureVisibleArea and captureVisibleAreaOverlay
InProgressNever == FALSE
InProgress == isCapturing

\* captureVisibleArea and captureVisibleAreaOverlay up to their await: they
\* return at once while a capture is in progress, and otherwise set the
\* flag, empty the list and call captureCurrentView
CaptureVisible(id, mode) ==
  /\ NextIdle(view, ViewIds, id)
  /\ IF InProgress
     THEN /\ view' = [view EXCEPT ![id] = [@ EXCEPT !.pc = "refused", !.mode = mode]]
          /\ UNCHANGED <<isCapturing, screenshots, listeners, bgq>>
     ELSE /\ isCapturing' = TRUE
          /\ screenshots' = <<>>
          /\ ViewArm(id, scroll, mode)
  /\ UNCHANGED <<geo, scroll, originalScrollPosition, full, region, inbox, faults, delivered, sel, ws,
                 clip, overlay>>

\* "capture-visible-area" reaches the tab: captureVisibleAreaOverlay
CaptureVisibleAreaOverlay(id) == CaptureVisible(id, "overlay")

StartVisibleOverlay(id) == CaptureVisibleAreaOverlay(id) /\ UNCHANGED route

\* A call of captureVisibleArea
CaptureVisibleArea(id) == CaptureVisible(id, "clipboard") /\ UNCHANGED route

\* The 15 s timer of captureCurrentView fires: the promise is rejected, and
\* messageHandler stays registered.
ViewTimeout(id) ==
  /\ view[id].timer
  /\ IF view[id].pc = "awaiting"
     THEN /\ view' = [view EXCEPT ![id] =
                        [@ EXCEPT !.timer = FALSE, !.pc = "failed",
                                  !.error = <<"Screenshot capture timeout">>]]
          /\ isCapturing' = FALSE
     ELSE /\ view' = [view EXCEPT ![id] = [@ EXCEPT !.timer = FALSE]]
          /\ UNCHANGED isCapturing
  /\ UNCHANGED <<geo, scroll, screenshots, originalScrollPosition, listeners,
                 full, region, bgq, inbox, faults, delivered, sel, ws,
                 clip, overlay, route>>

\* The 2 s backoff after a rate-limit error is over: captureCurrentView again
ViewRetry(id) ==
  /\ view[id].backoff
  /\ ViewArm(id, view[id].pos, view[id].mode)
  /\ UNCHANGED <<geo, scroll, isCapturing, screenshots, originalScrollPosition,
                 full, region, inbox, faults, delivered, sel, ws,
                 clip, overlay, route>>

(***************************************************************************)
(* The listeners.  s is the state of the content script that a listener    *)
(* reads and writes: isCapturing, screenshots, listeners, full, view and   *)
(* region.                                                                 *)
(***************************************************************************)
\* globalHandler of captureFullPage
GlobalHandler(s, id, m) ==
  IF m.action = "screenshot-captured" /\ s.isCapturing
  THEN [s EXCEPT !.screenshots = Append(@, [src |-> m.req, pos |-> m.pos]),
                 !.full[id].capturedCount = @ + 1,
                 !.full[id].counted = Append(@, m.req)]
  ELSE s

\* The test of messageHandler on the reported scroll position
ViewMatches(m, pos) ==
  /\ Abs(m.pos[1] - pos[1]) <= ViewTolerance
  /\ Abs(m.pos[2] - pos[2]) <= ViewTolerance

\* captureVisibleAreaOverlay and captureVisibleArea after their await, the
\* promise being resolved: the first screenshot of the list is shown in the
\* result overlay, or handed to copyToClipboard
ViewResolved(s, id) ==
  IF s.view[id].pc # "awaiting" THEN s
  ELSE [s EXCEPT !.view[id].pc = "done",
                 !.view[id].shown = IF Len(s.screenshots) > 0 /\ s.view[id].mode = "overlay"
                                    THEN s.screenshots[1].src ELSE @,
                 !.view[id].copy = IF Len(s.screenshots) > 0 /\ s.view[id].mode = "clipboard"
                                   THEN s.screenshots[1].src ELSE @,
                 !.isCapturing = FALSE]

\* captureVisibleAreaOverlay and captureVisibleArea after their await, the
\* promise being rejected
ViewRejectedPending(s, id, err) == s
ViewRejected(s, id, err) ==
  IF s.view[id].pc # "awaiting" THEN s
  ELSE [s EXCEPT !.view[id].pc = "failed", !.view[id].error = err,
                 !.isCapturing = FALSE]

\* What messageHandler does with a rate-limit error
ViewOnRateLimitReject(s, id, m) == ViewRejected(s, id, m.error)
ViewOnRateLimit(s, id, m) ==
  [s EXCEPT !.view[id].backoff = TRUE, !.view[id].rateLimited = @ + 1]

\* messageHandler of captureCurrentView
MessageHandler(s, id, m) ==
  LET v == s.view[id] IN
  IF m.action = "screenshot-captured" /\ ViewMatches(m, v.pos)
  THEN ViewResolved(
         [s EXCEPT !.view[id].timer = FALSE,
                   !.listeners = Without(@, <<"view", id>>),
                   !.screenshots = Append(@, [src |-> m.req, pos |-> v.pos]),
                   !.view[id].appended =
                      Append(@, [src |-> m.req, pos |-> v.pos, reported |-> m.pos])], id)
  ELSE IF m.action = "screenshot-captured" THEN s
  ELSE IF m.action = "screenshot-error"
  THEN LET t == [s EXCEPT !.view[id].timer = FALSE,
                          !.listeners = Without(@, <<"view", id>>)]
       IN  IF Includes(m.error, QuotaToken)
           THEN ViewOnRateLimit(t, id, m)
           ELSE ViewRejected(t, id, m.error)
  ELSE s

(***************************************************************************)
(* captureRegion and captureRegionMultiScroll                              *)
(***************************************************************************)
\* for (let x = start; x < end; x += step) tiles.push(x)
TileStartsOne(start, end, step) == <<start>>
RECURSIVE TileStarts(_, _, _)
TileStarts(start, end, step) ==
  IF start < end THEN <<start>> \o TileStarts(start + step, end, step) ELSE <<>>

\* The page positions (pageX, pageY) of the mouse events: selections of
\* 0, 4, 5, 9, 10 and 14 px on an axis
Points == {<<0, 0>>, <<4, 4>>, <<9, 9>>, <<14, 14>>}

\* What maybeAutoScroll adds to the scroll position and to regionCurrent.y: 0
\* away from the edges of the viewport or within 16 ms of its last run, a
\* step up or down otherwise
AutoScrollSteps == {0, 5}

\* "capture-region" reaches the tab: startRegionSelection returns at once while
\* a selection is active, and otherwise createRegionOverlay registers the four
\* listeners
StartRegionSelectionCall ==
  /\ sel.sessions < MaxSelections
  /\ ~sel.active
  /\ sel' = [sel EXCEPT !.active = TRUE, !.listening = TRUE, !.ended = "none",
                        !.sessions = @ + 1]
  /\ UNCHANGED <<geo, scroll, isCapturing, screenshots, originalScrollPosition,
                 listeners, full, view, region, bgq, inbox, faults, delivered, ws,
                 clip, overlay>>

StartRegionSelection == StartRegionSelectionCall /\ UNCHANGED route

\* getNormalizedRegion, for regionStart p1 and regionCurrent p2
GetNormalizedRegionTopLeft(p1, p2) ==
  [x |-> p1[1], y |-> p1[2], width |-> Abs(p1[1] - p2[1]), height |-> Abs(p1[2] - p2[2])]
GetNormalizedRegion(p1, p2) ==
  [x |-> Min(p1[1], p2[1]), y |-> Min(p1[2], p2[2]),
   width |-> Abs(p1[1] - p2[1]), height |-> Abs(p1[2] - p2[2])]

\* onMouseDown with the left button at page position p; updateRegionUI
\* shows the rectangle
MouseDown(p) ==
  /\ sel.listening
  /\ sel' = [sel EXCEPT !.start = p, !.current = p,
                        !.box = GetNormalizedRegion(p, p)]
  /\ UNCHANGED <<geo, scroll, isCapturing, screenshots, originalScrollPosition,
                 listeners, full, view, region, bgq, inbox, faults, delivered, ws,
                 clip, overlay, route>>

\* onMouseMove at page position p, maybeAutoScroll scrolling by deltaY;
\* updateRegionUI shows the rectangle
MouseMove(p, deltaY) ==
  /\ sel.listening
  /\ sel.start # Null
  /\ sel' = [sel EXCEPT !.current = <<p[1], p[2] + deltaY>>,
                        !.box = GetNormalizedRegion(sel.start, <<p[1], p[2] + deltaY>>)]
  /\ scroll' = ScrollTo(scroll[1], scroll[2] + deltaY)
  /\ UNCHANGED <<geo, isCapturing, screenshots, originalScrollPosition,
                 listeners, full, view, region, bgq, inbox, faults, delivered, ws,
                 clip, overlay, route>>

\* cleanupRegionUI and this.regionActive = false, the four listeners removed
EndSelectionKeepListeners(how) ==
  [sel EXCEPT !.active = FALSE, !.start = Null, !.current = Null,
              !.box = Null, !.ended = how]
EndSelection(how) ==
  [sel EXCEPT !.active = FALSE, !.listening = FALSE, !.start = Null,
              !.current = Null, !.box = Null, !.ended = how]

\* onMouseUp up to its await: the listeners are removed, the rectangle is
\* taken, the selection ends and the 80 ms repaint delay starts
RegionMouseUp(id) ==
  /\ NextIdle(region, RegionIds, id)
  /\ sel.listening
  /\ sel.start # Null /\ sel.current # Null
  /\ region' = [region EXCEPT ![id] =
                  [@ EXCEPT !.pc = "released",
                            !.rect = GetNormalizedRegion(sel.start, sel.current)]]
  /\ sel' = EndSelection("mouseup")
  /\ UNCHANGED <<geo, scroll, isCapturing, screenshots, originalScrollPosition,
                 listeners, full, view, bgq, inbox, faults, delivered, ws,
                 clip, overlay, route>>

\* The test of onMouseUp on the size of the rectangle
TooSmallBoth(rect) == rect.width < MinSelection /\ rect.height < MinSelection
TooSmall(rect) == rect.width < MinSelection \/ rect.height < MinSelection

\* onMouseUp after the 80 ms: a selection that is too small is dropped with a
\* notification, and otherwise captureRegion is called and sleeps 20 ms
RegionRelease(id) ==
  /\ region[id].pc = "released"
  /\ region' = [region EXCEPT ![id] =
                  IF TooSmall(region[id].rect)
                  THEN [@ EXCEPT !.pc = "tooSmall"]
                  ELSE [@ EXCEPT !.pc = "delay", !.calls = @ + 1]]
  /\ UNCHANGED <<geo, scroll, isCapturing, screenshots, originalScrollPosition,
                 listeners, full, view, bgq, inbox, faults, delivered, sel, ws,
                 clip, overlay, route>>

\* onKeyDown: Escape ends the selection, any other key does nothing
Keys == {"Escape", "Enter"}
KeyDown(key) ==
  /\ sel.listening
  /\ sel' = IF key = "Escape" THEN EndSelection("escape") ELSE sel
  /\ UNCHANGED <<geo, scroll, isCapturing, screenshots, originalScrollPosition,
                 listeners, full, view, region, bgq, inbox, faults, delivered, ws,
                 clip, overlay, route>>

\* const fullyVisible = ... of captureRegion
FullyVisibleTopLeft(rect, sx, sy) ==
  /\ rect.x >= sx /\ rect.x < sx + geo.vpW
  /\ rect.y >= sy /\ rect.y < sy + geo.vpH
FullyVisible(rect, sx, sy) ==
  /\ rect.x >= sx
  /\ rect.y >= sy
  /\ rect.x + rect.width <= sx + geo.vpW
  /\ rect.y + rect.height <= sy + geo.vpH

\* captureTile up to its first await: window.scrollTo(scrollX, scrollY)
RegionTileAt(r) == <<r.xTiles[r.xi], r.yTiles[r.yi]>>

\* The 20 ms are over: one snapshot of the viewport is requested, or
\* captureRegionMultiScroll plans its tiles and scrolls to the first one.
RegionBegin(id) ==
  /\ region[id].pc = "delay"
  /\ LET r == region[id]
         rect == r.rect
     IN  IF /\ FullyVisible(rect, scroll[1], scroll[2])
            /\ rect.width <= geo.vpW /\ rect.height <= geo.vpH
         THEN /\ region' = [region EXCEPT ![id] =
                              [r EXCEPT !.pc = "single", !.shotAt = scroll,
                                        !.log = Append(@, scroll)]]
              /\ listeners' = Append(listeners, <<"regionSingle", id>>)
              /\ bgq' = bgq \cup {[pos |-> scroll, req |-> <<"region", id, 1>>,
                                     tab |-> ContentTab]}
              /\ UNCHANGED scroll
         ELSE LET startX == FloorDiv(rect.x, geo.vpW) * geo.vpW
                  startY == FloorDiv(rect.y, geo.vpH) * geo.vpH
                  p == [r EXCEPT !.pc = "rsettling", !.original = scroll,
                                 !.xTiles = TileStarts(startX, rect.x + rect.width, geo.vpW),
                                 !.yTiles = TileStarts(startY, rect.y + rect.height, geo.vpH),
                                 !.xi = 1, !.yi = 1]
                  g == [p EXCEPT !.events = <<Event("scrollTo", RegionTileAt(p))>>]
              IN  /\ region' = [region EXCEPT ![id] = g]
                  /\ scroll' = ScrollTo(RegionTileAt(g)[1], RegionTileAt(g)[2])
                  /\ UNCHANGED <<listeners, bgq>>
  /\ UNCHANGED <<geo, isCapturing, screenshots, originalScrollPosition,
                 full, view, inbox, faults, delivered, sel, ws,
                 clip, overlay, route>>

\* captureTile: waitForScroll has resolved, the 250 ms render delay starts
RegionSettled(id) ==
  /\ region[id].pc = "rsettling"
  /\ LET r == region[id] IN
       region' = [region EXCEPT ![id] =
                    [r EXCEPT !.pc = "rrendering",
                              !.events = Append(@, Event("scrolled", RegionTileAt(r)))]]
  /\ UNCHANGED <<geo, scroll, isCapturing, screenshots, originalScrollPosition,
                 listeners, full, view, bgq, inbox, faults, delivered, sel, ws,
                 clip, overlay, route>>

\* captureTile: the 250 ms are over, the handler is registered and the
\* request for the tile is sent.
RegionTileRequest(id) ==
  /\ Settled(region[id].pc)
  /\ LET r == region[id]
         pos == RegionTileAt(r)
         g == Elapse(r.gap, TileSettleMs)
     IN  /\ region' = [region EXCEPT ![id] =
                         [r EXCEPT !.pc = "rawait", !.log = Append(@, pos),
                                   !.events = @ \o <<Event("settled", pos),
                                                     Event("request", pos)>>,
                                   !.gaps = IF Len(r.log) > 0 THEN Append(@, g) ELSE @,
                                   !.gap = 0]]
         /\ listeners' = Append(listeners, <<"regionTile", id>>)
         /\ bgq' = bgq \cup {[pos |-> pos, req |-> <<"region", id, Len(r.log) + 1>>,
                                tab |-> ContentTab]}
  /\ UNCHANGED <<geo, scroll, isCapturing, screenshots, originalScrollPosition,
                 full, view, inbox, faults, delivered, sel, ws,
                 clip, overlay, route>>

\* The composition loop of captureRegionMultiScroll: what is drawn for a tile
RegionDrawUnclipped(rect, tile) ==
  <<[src |-> tile.src, tx |-> tile.x, ty |-> tile.y, sx |-> 0, sy |-> 0,
     sw |-> geo.vpW * geo.dpr, sh |-> geo.vpH * geo.dpr,
     dx |-> tile.x - rect.x, dy |-> tile.y - rect.y,
     dw |-> geo.vpW, dh |-> geo.vpH]>>
RegionDraw(rect, tile) ==
  LET overlapX1 == Max(rect.x, tile.x)
      overlapY1 == Max(rect.y, tile.y)
      overlapX2 == Min(rect.x + rect.width, tile.x + geo.vpW)
      overlapY2 == Min(rect.y + rect.height, tile.y + geo.vpH)
      ow == overlapX2 - overlapX1
      oh == overlapY2 - overlapY1
  IN  IF ow <= 0 \/ oh <= 0 THEN <<>>
      ELSE <<[src |-> tile.src, tx |-> tile.x, ty |-> tile.y,
              sx |-> (overlapX1 - tile.x) * geo.dpr,
              sy |-> (overlapY1 - tile.y) * geo.dpr,
              sw |-> ow * geo.dpr, sh |-> oh * geo.dpr,
              dx |-> overlapX1 - rect.x, dy |-> overlapY1 - rect.y,
              dw |-> ow, dh |-> oh]>>

RECURSIVE RegionDraws(_, _)
RegionDraws(rect, tiles) ==
  IF tiles = <<>> THEN <<>>
  ELSE RegionDraw(rect, Head(tiles)) \o RegionDraws(rect, Tail(tiles))

\* The 650 ms after a tile are over: the next tile is scrolled to, or the
\* scroll position is restored, the tiles are composed and the result shown.
RegionTileNext(id) ==
  /\ region[id].pc = "rpaced"
  /\ LET r == [region[id] EXCEPT !.capturedTiles = @ + 1,
                                  !.gap = Elapse(@, TilePaceMs)] IN
       IF r.xi < Len(r.xTiles)
       THEN LET p == [r EXCEPT !.pc = "rsettling", !.xi = @ + 1]
                g == [p EXCEPT !.events = Append(@, Event("scrollTo", RegionTileAt(p)))]
            IN  /\ region' = [region EXCEPT ![id] = g]
                /\ scroll' = ScrollTo(RegionTileAt(g)[1], RegionTileAt(g)[2])
       ELSE IF r.yi < Len(r.yTiles)
       THEN LET p == [r EXCEPT !.pc = "rsettling", !.xi = 1, !.yi = @ + 1]
                g == [p EXCEPT !.events = Append(@, Event("scrollTo", RegionTileAt(p)))]
            IN  /\ region' = [region EXCEPT ![id] = g]
                /\ scroll' = ScrollTo(RegionTileAt(g)[1], RegionTileAt(g)[2])
       ELSE /\ region' = [region EXCEPT ![id] =
                            [r EXCEPT !.pc = "done", !.shown = TRUE,
                                      !.draws = RegionDraws(r.rect, r.tiles)]]
            /\ scroll' = ScrollTo(r.original[1], r.original[2])
  /\ UNCHANGED <<geo, isCapturing, screenshots, originalScrollPosition,
                 listeners, full, view, bgq, inbox, faults, delivered, sel, ws,
                 clip, overlay, route>>

\* cropDataUrl has loaded the snapshot: the cropped region is shown
RegionCrop(id) ==
  /\ region[id].pc = "cropping"
  /\ LET r == region[id] IN
       region' = [region EXCEPT ![id] =
         [r EXCEPT !.pc = "done", !.shown = TRUE,
                   !.draws = <<[src |-> r.tiles[1].src,
                                tx |-> r.shotAt[1], ty |-> r.shotAt[2],
                                sx |-> (r.rect.x - r.shotAt[1]) * geo.dpr,
                                sy |-> (r.rect.y - r.shotAt[2]) * geo.dpr,
                                sw |-> r.rect.width * geo.dpr,
                                sh |-> r.rect.height * geo.dpr,
                                dx |-> 0, dy |-> 0,
                                dw |-> r.rect.width, dh |-> r.rect.height]>>]]
  /\ UNCHANGED <<geo, scroll, isCapturing, screenshots, originalScrollPosition,
                 listeners, full, view, bgq, inbox, faults, delivered, sel, ws,
                 clip, overlay, route>>

\* handler of the single capture of captureRegion
RegionSingleHandler(s, id, m) ==
  IF m.action = "screenshot-captured"
  THEN [s EXCEPT !.listeners = Without(@, <<"regionSingle", id>>),
                 !.region[id].pc = "cropping",
                 !.region[id].tiles = <<[src |-> m.req, x |-> s.region[id].shotAt[1],
                                         y |-> s.region[id].shotAt[2]]>>]
  ELSE IF m.action = "screenshot-error"
  THEN [s EXCEPT !.listeners = Without(@, <<"regionSingle", id>>),
                 !.region[id].pc = "failed",
                 !.region[id].error = m.error]
  ELSE s

\* The test of the handler of captureTile on the reported scroll position
TileMatches(m, pos) ==
  /\ Abs(m.pos[1] - pos[1]) < TileTolerance
  /\ Abs(m.pos[2] - pos[2]) < TileTolerance

\* handler of captureTile.  On an error the inner promise is rejected inside
\* the async executor of captureTile, whose own promise is then never
\* settled: the loop of captureRegionMultiScroll stays at its await.
RegionTileHandler(s, id, m) ==
  LET r == s.region[id]
      pos == RegionTileAt(r)
  IN  IF m.action = "screenshot-captured" /\ TileMatches(m, pos)
      THEN [s EXCEPT !.listeners = Without(@, <<"regionTile", id>>),
                     !.region[id].pc = "rpaced",
                     !.region[id].tiles =
                        Append(@, [src |-> m.req, x |-> pos[1], y |-> pos[2]])]
      ELSE IF m.action = "screenshot-error"
      THEN [s EXCEPT !.listeners = Without(@, <<"regionTile", id>>),
                     !.region[id].pc = "hung",
                     !.region[id].error = m.error]
      ELSE s

(***************************************************************************)
(* The background and the delivery of its replies                          *)
(***************************************************************************)
\* chrome.tabs.sendMessage(sender.tab.id, ...): the tab the background sends
\* its answer to
ReplyTabFirst(r) == ContentTab
ReplyTab(r) == r.tab

\* The background answers a request: captureVisibleTab succeeded
BgCaptured(r) ==
  /\ r \in bgq
  /\ bgq' = bgq \ {r}
  /\ inbox' = inbox \cup {[action |-> "screenshot-captured", pos |-> r.pos,
                           error |-> <<>>, req |-> r.req, tab |-> ReplyTab(r)]}
  /\ UNCHANGED <<geo, scroll, isCapturing, screenshots, originalScrollPosition,
                 listeners, full, view, region, faults, delivered, sel, ws,
                 clip, overlay, route>>

\* The background answers a request: captureVisibleTab threw
BgError(r, err) ==
  /\ r \in bgq
  /\ faults < MaxErrors
  /\ faults' = faults + 1
  /\ bgq' = bgq \ {r}
  /\ inbox' = inbox \cup {[action |-> "screenshot-error", pos |-> r.pos,
                           error |-> err, req |-> r.req, tab |-> ReplyTab(r)]}
  /\ UNCHANGED <<geo, scroll, isCapturing, screenshots, originalScrollPosition,
                 listeners, full, view, region, delivered, sel, ws,
                 clip, overlay, route>>

ContentState ==
  [isCapturing |-> isCapturing, screenshots |-> screenshots,
   listeners |-> listeners, full |-> full, view |-> view, region |-> region]

Listener(s, l, m) ==
  IF l[1] = "full" THEN GlobalHandler(s, l[2], m)
  ELSE IF l[1] = "view" THEN MessageHandler(s, l[2], m)
  ELSE IF l[1] = "regionSingle" THEN RegionSingleHandler(s, l[2], m)
  ELSE RegionTileHandler(s, l[2], m)

\* chrome.runtime.onMessage calls the listeners registered at the time of the
\* dispatch, in the order of their registration
RECURSIVE Dispatch(_, _, _)
Dispatch(s, ls, m) ==
  IF ls = <<>> THEN s
  ELSE Dispatch(Listener(s, Head(ls), m), Tail(ls), m)

\* A reply of the background reaches the tab
Deliver(m) ==
  /\ m \in inbox
  /\ m.tab = ContentTab
  /\ inbox' = inbox \ {m}
  /\ LET s == Dispatch(ContentState, listeners, m) IN
       /\ isCapturing' = s.isCapturing
       /\ screenshots' = s.screenshots
       /\ listeners' = s.listeners
       /\ full' = s.full
       /\ view' = s.view
       /\ region' = s.region
  /\ delivered' = delivered \cup {m}
  /\ UNCHANGED <<geo, scroll, originalScrollPosition, bgq, faults, sel, ws,
                 clip, overlay, route>>

\* The content script of another tab sends capture-visible-area for a scroll
\* position of its own page
OtherTabRequest(tab, pos) ==
  /\ tab # ContentTab
  /\ Len(route.snapshots) < MaxOther
  /\ bgq' = bgq \cup {[pos |-> pos, req |-> <<"tab", tab, Len(route.snapshots) + 1>>,
                        tab |-> tab]}
  /\ route' = [route EXCEPT !.snapshots = Append(@, [tab |-> tab, pos |-> pos])]
  /\ UNCHANGED <<geo, scroll, isCapturing, screenshots, originalScrollPosition,
                 listeners, full, view, region, inbox, faults, delivered, sel, ws,
                 clip, overlay>>

\* A reply of the background reaches another tab
OtherTabDeliver(m) ==
  /\ m \in inbox
  /\ m.tab # ContentTab
  /\ inbox' = inbox \ {m}
  /\ route' = [route EXCEPT !.got = @ \cup {m}]
  /\ UNCHANGED <<geo, scroll, isCapturing, screenshots, originalScrollPosition,
                 listeners, full, view, region, bgq, faults, delivered, sel, ws,
                 clip, overlay>>

\* The user scrolls the page between two tasks of the content script
UserScrolls == {<<0, 0>>, <<0, 5>>, <<6, 0>>}
UserScroll(p) ==
  /\ scroll' = ScrollTo(p[1], p[2])
  /\ scroll' # scroll
  /\ UNCHANGED <<geo, isCapturing, screenshots, originalScrollPosition,
                 listeners, full, view, region, bgq, inbox, faults, delivered, sel, ws,
                 clip, overlay, route>>

(***************************************************************************)
(* waitForScroll.  In the captures above a call of waitForScroll is one    *)
(* step, from the scrollTo to its resolution; here its animation frames    *)
(* are the steps.                                                          *)
(***************************************************************************)
\* const xMatches = Math.abs(currentX - targetX) < 10 || currentX >= maxScrollX
AxisMatchesWide(current, target, maxScroll) ==
  Abs(current - target) <= ScrollTolerance \/ current >= maxScroll
AxisMatches(current, target, maxScroll) ==
  Abs(current - target) < ScrollTolerance \/ current >= maxScroll

\* checkScroll, reading the scroll position at: resolve on a match, resolve
\* after maxAttempts, or count the attempt and request the next frame
CheckScroll(w, at) ==
  LET seen == [w EXCEPT !.seen = at, !.checks = @ + 1] IN
    IF /\ AxisMatches(at[1], w.target[1], MaxScrollX)
       /\ AxisMatches(at[2], w.target[2], MaxScrollY)
    THEN [seen EXCEPT !.pc = "resolved"]
    ELSE IF w.attempts >= MaxAttempts
    THEN [seen EXCEPT !.pc = "resolved"]
    ELSE [seen EXCEPT !.pc = "polling", !.attempts = @ + 1]

\* The tile origins the captures scroll to
WaitTargets == {<<0, 0>>, <<10, 0>>, <<0, 10>>, <<10, 10>>}

\* window.scrollTo(target) followed by waitForScroll(target), which runs
\* checkScroll once at once.  The position has changed when scrollTo
\* returns (landed), or, on a page that scrolls smoothly, has not yet.
WaitForScroll(target, landed) ==
  /\ ws.pc # "polling"
  /\ scroll' = IF landed THEN ScrollTo(target[1], target[2]) ELSE scroll
  /\ ws' = CheckScroll([IdleWait EXCEPT !.target = target], scroll')
  /\ UNCHANGED <<geo, isCapturing, screenshots, originalScrollPosition,
                 listeners, full, view, region, bgq, inbox, faults, delivered, sel,
                 clip, overlay, route>>

\* requestAnimationFrame calls checkScroll
Frame ==
  /\ ws.pc = "polling"
  /\ ws' = CheckScroll(ws, scroll)
  /\ UNCHANGED <<geo, scroll, isCapturing, screenshots, originalScrollPosition,
                 listeners, full, view, region, bgq, inbox, faults, delivered, sel,
                 clip, overlay, route>>

\* The smooth scroll started by scrollTo reaches its target
ScrollLands ==
  /\ ws.pc = "polling"
  /\ scroll' = ScrollTo(ws.target[1], ws.target[2])
  /\ scroll' # scroll
  /\ UNCHANGED <<geo, isCapturing, screenshots, originalScrollPosition,
                 listeners, full, view, region, bgq, inbox, faults, delivered, sel, ws,
                 clip, overlay, route>>

(***************************************************************************)
(* The background: copyToClipboardInBackground, createOffscreenForClipboard *)
(* and the listener of the offscreen document.  chrome.offscreen holds at   *)
(* most one document for the extension.                                     *)
(***************************************************************************)
CaptureVars ==
  <<geo, scroll, isCapturing, screenshots, originalScrollPosition, listeners,
    full, view, region, bgq, inbox, faults, delivered, sel, ws>>

\* The onMessage listener of the background after its await of
\* copyToClipboardInBackground: what it sends to the tab of the sender
ClipboardReplyNone(id, c) == {}
ClipboardReply(id, c) ==
  IF c.pc = "returned" /\ c.tab # 0
  THEN {[tab |-> c.tab, call |-> id,
         action |-> IF c.ret = "true" THEN "clipboard-success" ELSE "clipboard-error"]}
  ELSE {}

\* One call of the background changes to c, the offscreen document to doc;
\* a call that has returned has its listener send the reply
ClipStep(id, c, doc) ==
  /\ clip' = [clip EXCEPT !.calls[id] = c, !.doc = doc,
                          !.replies = @ \cup ClipboardReply(id, c)]
  /\ UNCHANGED <<CaptureVars, overlay, route>>

\* A return of copyToClipboardInBackground
Returned(c, why, value) ==
  [c EXCEPT !.pc = "returned", !.outcome = why, !.ret = value]

\* The catch block of createOffscreenForClipboard: closeDocument is invoked
\* and, whatever it does, false is returned
CaughtNoCleanup(c, why) == Returned(c, why, "false")
Caught(c, why) ==
  [c EXCEPT !.pc = "cleanup", !.outcome = why, !.tornDown = c.created]

\* return response?.success || false
ResponseSuccess(response) == response.defined /\ response.success

\* copyToClipboard of the content script of a tab: the request is sent and
\* "Copying to clipboard..." is shown
CopyToClipboard(tab) ==
  /\ Len(clip.asked) < MaxClip
  /\ clip' = [clip EXCEPT !.asked = Append(@, tab),
                          !.requests = @ \cup {Len(clip.asked) + 1},
                          !.notes[tab] = Append(@, [type |-> "info", call |-> 0])]
  /\ UNCHANGED <<CaptureVars, overlay, route>>

\* "copy-to-clipboard" reaches the background: copyToClipboardInBackground
\* fetches the data URL, and createOffscreenForClipboard returns false without
\* chrome.offscreen or asks for the existing contexts
ClipStart(id, fetched) ==
  /\ NextIdle(clip.calls, ClipIds, id)
  /\ \E n \in clip.requests :
       LET c == [clip.calls[id] EXCEPT !.tab = clip.asked[n], !.request = n]
           d == IF ~fetched THEN Returned(c, "fetchError", "false")
                ELSE IF ~clip.api THEN Returned(c, "noApi", "false")
                ELSE [c EXCEPT !.pc = "checking"]
       IN  clip' = [clip EXCEPT !.calls[id] = d, !.requests = @ \ {n},
                                !.replies = @ \cup ClipboardReply(id, d)]
  /\ UNCHANGED <<CaptureVars, overlay, route>>

\* getContexts has answered, or has thrown (the list stays empty): an existing
\* document is closed first, and otherwise createDocument is called
ClipChecked(id, answered) ==
  /\ clip.calls[id].pc = "checking"
  /\ LET c == clip.calls[id]
         existing == IF answered /\ clip.doc # 0 THEN 1 ELSE 0
     IN  ClipStep(id,
                  IF existing > 0 THEN [c EXCEPT !.pc = "closingOld"]
                  ELSE [c EXCEPT !.pc = "creating"],
                  clip.doc)

\* closeDocument of the existing document is over, with or without an error:
\* createDocument is called
ClipClosedOld(id) ==
  /\ clip.calls[id].pc = "closingOld"
  /\ ClipStep(id, [clip.calls[id] EXCEPT !.pc = "creating"], 0)

\* createDocument is over: with the document created the message is sent and
\* the 10 s timer started; it throws while a document exists, or for a
\* reason of its own
ClipCreated(id, ok) ==
  /\ clip.calls[id].pc = "creating"
  /\ LET c == clip.calls[id] IN
       IF ok /\ clip.doc = 0
       THEN ClipStep(id, [c EXCEPT !.pc = "racing", !.created = TRUE], id)
       ELSE ClipStep(id, Caught(c, "createError"), clip.doc)

\* The listener of the offscreen document is an async function: it returns a
\* promise, not true.  A browser that keeps the channel of sendResponse open
\* only for a listener that returns true closes it when the listener returns,
\* at its first await; a browser that accepts a promise keeps it open.
Channels == {"open", "closed"}

\* The listener of the offscreen document has returned and the browser has
\* closed the channel: sendMessage resolves with undefined, the race is won
\* and closeDocument is invoked
OffscreenReturns(id) ==
  /\ clip.calls[id].pc = "racing"
  /\ clip.doc # 0
  /\ clip.channel = "closed"
  /\ ClipStep(id,
              [clip.calls[id] EXCEPT !.pc = "closing", !.tornDown = TRUE,
                                     !.response = Undefined,
                                     !.outcome = "noResponse"],
              clip.doc)

\* The listener of the offscreen document has written the clipboard, or has
\* failed to, and calls sendResponse.  On an open channel the race is won by
\* the response and closeDocument is invoked; on a closed channel the answer
\* is lost, the document not being closed yet.
OffscreenAnswer(id, success) ==
  /\ clip.doc # 0
  /\ clip.calls[id].answered = "none"
  /\ LET c == clip.calls[id]
         said == IF success THEN "success" ELSE "failure"
     IN  IF clip.channel = "open"
         THEN /\ c.pc = "racing"
              /\ ClipStep(id,
                          [c EXCEPT !.pc = "closing", !.tornDown = TRUE,
                                    !.answered = said,
                                    !.response = [defined |-> TRUE, success |-> success],
                                    !.outcome = said],
                          clip.doc)
         ELSE /\ c.pc = "closing"
              /\ ClipStep(id, [c EXCEPT !.answered = said], clip.doc)

\* chrome.runtime.sendMessage rejects: the catch block
ClipSendFails(id) ==
  /\ clip.calls[id].pc = "racing"
  /\ ClipStep(id, Caught(clip.calls[id], "sendError"), clip.doc)

\* The 10 s timer rejects: the catch block
ClipTimeout(id) ==
  /\ clip.calls[id].pc = "racing"
  /\ ClipStep(id, Caught(clip.calls[id], "timeout"), clip.doc)

\* closeDocument after the response is over, with or without an error
ClipClosed(id) ==
  /\ clip.calls[id].pc = "closing"
  /\ LET c == clip.calls[id] IN
       ClipStep(id,
                Returned(c, c.outcome,
                         IF ResponseSuccess(c.response) THEN "true" ELSE "false"),
                0)

\* closeDocument of the catch block is over, with or without an error
ClipCleaned(id) ==
  /\ clip.calls[id].pc = "cleanup"
  /\ ClipStep(id, Returned(clip.calls[id], clip.calls[id].outcome, "false"), 0)

\* clipboard-success or clipboard-error reaches the listener of the content
\* script of the tab, which shows the notification
ClipboardAnswer(m) ==
  /\ m \in clip.replies
  /\ clip' = [clip EXCEPT
                !.replies = @ \ {m},
                !.received = @ \cup {m},
                !.notes[m.tab] =
                   Append(@, [type |-> IF m.action = "clipboard-success"
                                       THEN "success" ELSE "error",
                              call |-> m.call])]
  /\ UNCHANGED <<CaptureVars, overlay, route>>

(***************************************************************************)
(* showResultOverlay: the overlay with Copy, Download and Close that the    *)
(* full-page, region and visible-area captures show for their result.       *)
(***************************************************************************)
\* filenameBase of the three callers of showResultOverlay
FilenameBases == {"full-page-screenshot", "region-screenshot", "visible-area-screenshot"}

\* Values of Date.now()
Clock == {1, 2}

\* `${filenameBase}-${Date.now()}.png`
Filename(filenameBase, now) == <<filenameBase, "-", now, ".png">>

OverlayStep(id, o) ==
  /\ overlay' = [overlay EXCEPT ![id] = o]
  /\ UNCHANGED <<CaptureVars, clip, route>>

\* A capture has its result: showResultOverlay appends the overlay to the
\* document and sets the handlers of its buttons
ShowResultOverlay(id, filenameBase) ==
  /\ NextIdle(overlay, OverlayIds, id)
  /\ OverlayStep(id, [overlay[id] EXCEPT !.pc = "shown", !.open = TRUE,
                                         !.filenameBase = filenameBase,
                                         !.dataUrl = <<filenameBase, id>>])

\* copyBtn.onclick up to its await: the button is disabled and
\* copyImageDirectlyToClipboard starts
CopyStartedEnabled(o) ==
  [o EXCEPT !.copyText = "Copying", !.status = "Copying to clipboard...",
            !.writes = @ + 1, !.attempts = @ + 1]
CopyStarted(o) ==
  [o EXCEPT !.copyDisabled = TRUE, !.copyText = "Copying",
            !.status = "Copying to clipboard...",
            !.writes = @ + 1, !.attempts = @ + 1]

\* The user clicks Copy: a disabled button receives no click
ClickCopy(id) ==
  /\ overlay[id].open
  /\ ~overlay[id].copyDisabled
  /\ overlay[id].attempts < MaxCopies
  /\ OverlayStep(id, CopyStarted(overlay[id]))

\* copyImageDirectlyToClipboard has resolved: the overlay is removed 650 ms
\* later
CopySucceeds(id) ==
  /\ overlay[id].writes > 0
  /\ OverlayStep(id, [overlay[id] EXCEPT !.copyText = "Copied", !.status = "Copied.",
                                         !.writes = @ - 1, !.copied = @ + 1,
                                         !.removeTimer = TRUE])

\* The catch block of copyBtn.onclick
CopyFailedCloses(o) ==
  [o EXCEPT !.copyText = "Failed", !.status = "Copy failed", !.copyDisabled = FALSE,
            !.writes = @ - 1, !.failures = @ + 1, !.open = FALSE,
            !.removedBy = "failed"]
CopyFailed(o) ==
  [o EXCEPT !.copyText = "Failed", !.status = "Copy failed", !.copyDisabled = FALSE,
            !.writes = @ - 1, !.failures = @ + 1]

\* copyImageDirectlyToClipboard has rejected
CopyFails(id) ==
  /\ overlay[id].writes > 0
  /\ OverlayStep(id, CopyFailed(overlay[id]))

\* setTimeout(() => overlay.remove(), 650) fires
OverlayRemoveTimer(id) ==
  /\ overlay[id].removeTimer
  /\ OverlayStep(id, [overlay[id] EXCEPT !.removeTimer = FALSE, !.open = FALSE,
                                         !.removedBy = IF overlay[id].open
                                                       THEN "copied" ELSE @])

\* downloadBtn.onclick: downloadImage with the file name
ClickDownload(id, now) ==
  /\ overlay[id].open
  /\ Len(overlay[id].downloads) < MaxDownloads
  /\ OverlayStep(id, [overlay[id] EXCEPT
                        !.downloads = Append(@, Filename(overlay[id].filenameBase, now)),
                        !.status = "Downloaded."])

\* closeBtn.onclick, and overlay.onclick on the backdrop
ClickClose(id, how) ==
  /\ overlay[id].open
  /\ OverlayStep(id, [overlay[id] EXCEPT !.open = FALSE, !.removedBy = how])

(***************************************************************************)
(* From the popup to the content script: captureAndCopyDirectly sends its   *)
(* message with chrome.runtime.sendMessage, which reaches the background;   *)
(* the background forwards with chrome.tabs.sendMessage; the listener of    *)
(* the content script starts the capture.                                   *)
(***************************************************************************)
Modes == {"visible", "full", "region"}

\* The message captureAndCopyDirectly sends for a mode; the visible area is
\* captured by the popup itself
ActionOf(mode) == IF mode = "full" THEN "capture-full-page" ELSE "capture-region"

\* The user clicks a button of the popup, the active tab being found
PopupClick(mode) ==
  /\ route.clicks < MaxClicks
  /\ mode = "full" => route.fulls < MaxFull
  /\ mode = "region" => route.regions < MaxSelections
  /\ route' = [route EXCEPT
                 !.clicks = @ + 1,
                 !.fulls = IF mode = "full" THEN @ + 1 ELSE @,
                 !.regions = IF mode = "region" THEN @ + 1 ELSE @,
                 !.toBackground =
                    IF mode = "visible" THEN @
                    ELSE @ \cup {[action |-> ActionOf(mode), n |-> route.clicks + 1]}]
  /\ UNCHANGED <<CaptureVars, clip, overlay>>

\* chrome.commands.onCommand of the background: the keyboard shortcut sends
\* capture-full-page to the active tab
Command ==
  /\ route.clicks < MaxClicks
  /\ route.fulls < MaxFull
  /\ route' = [route EXCEPT
                 !.clicks = @ + 1, !.fulls = @ + 1,
                 !.toTab = @ \cup {[action |-> "capture-full-page",
                                    n |-> route.clicks + 1]}]
  /\ UNCHANGED <<CaptureVars, clip, overlay>>

\* The branches of the onMessage listener of the background for a message
\* that comes from the popup (no sender.tab): what it sends to the active tab
Forwarded(action) ==
  IF action \in {"capture-full-page", "capture-visible-area"} THEN {action} ELSE {}

\* A message of the popup reaches the listener of the background
BackgroundReceive(m) ==
  /\ m \in route.toBackground
  /\ route' = [route EXCEPT
                 !.toBackground = @ \ {m},
                 !.toTab = @ \cup {[action |-> a, n |-> m.n] : a \in Forwarded(m.action)}]
  /\ UNCHANGED <<CaptureVars, clip, overlay>>

\* A message of the background reaches the listener of the content script,
\* which calls captureFullPage, captureVisibleAreaOverlay or
\* startRegionSelection
TabReceive(m) ==
  /\ m \in route.toTab
  /\ route' = [route EXCEPT !.toTab = @ \ {m}, !.handled = @ \cup {m}]
  /\ IF m.action = "capture-full-page"
     THEN \E id \in FullIds : CaptureFullPage(id)
     ELSE IF m.action = "capture-visible-area"
     THEN \E id \in ViewIds : CaptureVisibleAreaOverlay(id)
     ELSE IF m.action = "capture-region" /\ ~sel.active
     THEN StartRegionSelectionCall
     ELSE UNCHANGED <<CaptureVars, clip, overlay>>

Background ==
  \/ \E r \in bgq : BgCaptured(r)
  \/ \E r \in bgq : \E err \in {RateLimitError, OtherError} : BgError(r, err)
  \/ \E m \in inbox : Deliver(m)

FullSteps ==
  \/ \E id \in FullIds : FullSettled(id)
  \/ \E id \in FullIds : FullRequest(id)
  \/ \E id \in FullIds : FullAdvance(id)
  \/ \E id \in FullIds : FullPoll(id)
  \/ \E id \in FullIds : FullDraw(id)

\* One call of captureFullPage
Next ==
  \/ StartFullPage(1)
  \/ Background
  \/ FullSteps

Spec == Init /\ [][Next]_vars

\* One call of captureFullPage on the larger pages
SpecLarge == InitWith(LargeGeometries) /\ [][Next]_vars

\* Calls of captureFullPage that overlap
InitTwoFull == InitWith(SmallGeometries)
NextTwoFull ==
  \/ \E id \in FullIds : StartFullPage(id)
  \/ FullSteps
  \/ Background

SpecTwoFull == InitTwoFull /\ [][NextTwoFull]_vars

\* Calls of captureVisibleAreaOverlay, the user scrolling in between
NextView ==
  \/ \E id \in ViewIds : StartVisibleOverlay(id)
  \/ \E id \in ViewIds : CaptureVisibleArea(id)
  \/ \E id \in ViewIds : ViewTimeout(id)
  \/ \E id \in ViewIds : ViewRetry(id)
  \/ \E p \in UserScrolls : UserScroll(p)
  \/ Background

SpecView == InitWith(ScrollGeometries) /\ [][NextView]_vars

\* Region captures
NextRegion ==
  \/ StartRegionSelection
  \/ \E p \in Points : MouseDown(p)
  \/ \E p \in Points : \E deltaY \in AutoScrollSteps : MouseMove(p, deltaY)
  \/ \E key \in Keys : KeyDown(key)
  \/ \E id \in RegionIds : RegionMouseUp(id)
  \/ \E id \in RegionIds : RegionRelease(id)
  \/ \E id \in RegionIds : RegionBegin(id)
  \/ \E id \in RegionIds : RegionSettled(id)
  \/ \E id \in RegionIds : RegionTileRequest(id)
  \/ \E id \in RegionIds : RegionTileNext(id)
  \/ \E id \in RegionIds : RegionCrop(id)
  \/ \E p \in UserScrolls : UserScroll(p)
  \/ Background

SpecRegion == InitWith(ScrollGeometries) /\ [][NextRegion]_vars

\* A region capture and a visible-area capture at the same time: captureRegion
\* neither reads nor sets isCapturing
NextMixed ==
  \/ StartRegionSelection
  \/ MouseDown(<<0, 0>>)
  \/ MouseMove(<<9, 9>>, 0)
  \/ \E id \in RegionIds : RegionMouseUp(id)
  \/ \E id \in RegionIds : RegionRelease(id)
  \/ \E id \in RegionIds : RegionBegin(id)
  \/ \E id \in RegionIds : RegionSettled(id)
  \/ \E id \in RegionIds : RegionTileRequest(id)
  \/ \E id \in RegionIds : RegionTileNext(id)
  \/ \E id \in RegionIds : RegionCrop(id)
  \/ \E p \in UserScrolls : UserScroll(p)
  \/ Background
  \/ StartVisibleOverlay(1)
  \/ \E id \in ViewIds : ViewTimeout(id)
  \/ \E id \in ViewIds : ViewRetry(id)

SpecMixed == InitWith(ScrollGeometries) /\ [][NextMixed]_vars

\* A full-page capture and, from one selection, a region capture of two
\* tiles, on a page of two columns
TiledGeometries == {Geometry(16, 10)}
NextTiled ==
  \/ StartFullPage(1)
  \/ FullSteps
  \/ sel.sessions = 0 /\ StartRegionSelection
  \/ MouseDown(<<4, 4>>)
  \/ MouseMove(<<14, 4>>, 5)
  \/ \E id \in RegionIds : RegionMouseUp(id)
  \/ \E id \in RegionIds : RegionRelease(id)
  \/ \E id \in RegionIds : RegionBegin(id)
  \/ \E id \in RegionIds : RegionSettled(id)
  \/ \E id \in RegionIds : RegionTileRequest(id)
  \/ \E id \in RegionIds : RegionTileNext(id)
  \/ Background

SpecTiled == InitWith(TiledGeometries) /\ [][NextTiled]_vars

\* A call of captureFullPage and a call of captureVisibleAreaOverlay or of
\* captureVisibleArea, every timer of the content script firing and every
\* animation frame coming; the background may leave requests unanswered
NextLive ==
  \/ StartFullPage(1)
  \/ FullSteps
  \/ StartVisibleOverlay(1)
  \/ CaptureVisibleArea(1)
  \/ \E id \in ViewIds : ViewTimeout(id)
  \/ \E id \in ViewIds : ViewRetry(id)
  \/ Background

SpecLive ==
  /\ InitWith(SmallGeometries)
  /\ [][NextLive]_vars
  /\ \A id \in FullIds :
       /\ WF_vars(FullSettled(id))
       /\ WF_vars(FullRequest(id))
       /\ WF_vars(FullAdvance(id))
       /\ WF_vars(FullPoll(id))
       /\ WF_vars(FullDraw(id))
  /\ \A id \in ViewIds :
       /\ WF_vars(ViewTimeout(id))
       /\ WF_vars(ViewRetry(id))

\* Region captures from selections that start at (4, 4), every timer of the
\* content script firing, every request being answered by the background and
\* every answer reaching the tab
NextAnswered ==
  \/ StartRegionSelection
  \/ MouseDown(<<4, 4>>)
  \/ \E p \in {<<9, 9>>, <<14, 14>>} : MouseMove(p, 0)
  \/ \E id \in RegionIds : RegionMouseUp(id)
  \/ \E id \in RegionIds : RegionRelease(id)
  \/ \E id \in RegionIds : RegionBegin(id)
  \/ \E id \in RegionIds : RegionSettled(id)
  \/ \E id \in RegionIds : RegionTileRequest(id)
  \/ \E id \in RegionIds : RegionTileNext(id)
  \/ \E id \in RegionIds : RegionCrop(id)
  \/ Background

SpecAnswered ==
  /\ InitWith(ScrollGeometries)
  /\ [][NextAnswered]_vars
  /\ \A id \in RegionIds :
       /\ WF_vars(RegionRelease(id))
       /\ WF_vars(RegionBegin(id))
       /\ WF_vars(RegionSettled(id))
       /\ WF_vars(RegionTileRequest(id))
       /\ WF_vars(RegionTileNext(id))
       /\ WF_vars(RegionCrop(id))
  /\ WF_vars(\E r \in bgq :
               BgCaptured(r) \/ \E err \in {RateLimitError, OtherError} : BgError(r, err))
  /\ WF_vars(\E m \in inbox : Deliver(m))

\* A full-page capture in one tab while the content scripts of other tabs
\* send requests of their own to the background
NextTabs ==
  \/ StartFullPage(1)
  \/ FullSteps
  \/ Background
  \/ \E tab \in Tabs : \E pos \in WaitTargets : OtherTabRequest(tab, pos)
  \/ \E m \in inbox : OtherTabDeliver(m)

SpecTabs == InitWith(TiledGeometries) /\ [][NextTabs]_vars

\* The choices of the popup and the keyboard command on their way to the
\* content script.  The browser delivers every message that was sent: the
\* background is woken for it and the content script is loaded in the tab.
NextRoute ==
  \/ \E mode \in Modes : PopupClick(mode)
  \/ Command
  \/ \E m \in route.toBackground : BackgroundReceive(m)
  \/ \E m \in route.toTab : TabReceive(m)

SpecRoute ==
  /\ InitWith(SmallGeometries)
  /\ [][NextRoute]_vars
  /\ WF_vars(\E m \in route.toBackground : BackgroundReceive(m))
  /\ WF_vars(\E m \in route.toTab : TabReceive(m))

\* The result overlays and the clicks of the user
NextOverlay ==
  \/ \E id \in OverlayIds : \E filenameBase \in FilenameBases :
       ShowResultOverlay(id, filenameBase)
  \/ \E id \in OverlayIds : ClickCopy(id)
  \/ \E id \in OverlayIds : CopySucceeds(id)
  \/ \E id \in OverlayIds : CopyFails(id)
  \/ \E id \in OverlayIds : OverlayRemoveTimer(id)
  \/ \E id \in OverlayIds : \E now \in Clock : ClickDownload(id, now)
  \/ \E id \in OverlayIds : \E how \in {"close", "backdrop"} : ClickClose(id, how)

SpecOverlay == InitWith(SmallGeometries) /\ [][NextOverlay]_vars

\* Clipboard requests to the background, with and without chrome.offscreen
InitClip ==
  /\ InitCapture(SmallGeometries)
  /\ clip \in {IdleClip(api, channel) : api \in BOOLEAN, channel \in Channels}

NextClip ==
  \/ \E tab \in Tabs : CopyToClipboard(tab)
  \/ \E m \in clip.replies : ClipboardAnswer(m)
  \/ \E id \in ClipIds : \E fetched \in BOOLEAN : ClipStart(id, fetched)
  \/ \E id \in ClipIds : \E answered \in BOOLEAN : ClipChecked(id, answered)
  \/ \E id \in ClipIds : ClipClosedOld(id)
  \/ \E id \in ClipIds : \E ok \in BOOLEAN : ClipCreated(id, ok)
  \/ \E id \in ClipIds : OffscreenReturns(id)
  \/ \E id \in ClipIds : \E success \in BOOLEAN : OffscreenAnswer(id, success)
  \/ \E id \in ClipIds : ClipSendFails(id)
  \/ \E id \in ClipIds : ClipTimeout(id)
  \/ \E id \in ClipIds : ClipClosed(id)
  \/ \E id \in ClipIds : ClipCleaned(id)

SpecClip == InitClip /\ [][NextClip]_vars

\* The same, every promise of the chrome API settling, every timer firing and
\* every message that was sent being delivered
SpecCopy ==
  /\ InitClip
  /\ [][NextClip]_vars
  /\ \A id \in ClipIds :
       /\ WF_vars(\E fetched \in BOOLEAN : ClipStart(id, fetched))
       /\ WF_vars(\E answered \in BOOLEAN : ClipChecked(id, answered))
       /\ WF_vars(ClipClosedOld(id))
       /\ WF_vars(\E ok \in BOOLEAN : ClipCreated(id, ok))
       /\ WF_vars(ClipTimeout(id))
       /\ WF_vars(ClipClosed(id))
       /\ WF_vars(ClipCleaned(id))
  /\ WF_vars(\E m \in clip.replies : ClipboardAnswer(m))

\* Calls of waitForScroll, the page scrolling at once or smoothly and the user
\* scrolling in between
NextScroll ==
  \/ \E target \in WaitTargets : \E landed \in BOOLEAN : WaitForScroll(target, landed)
  \/ Frame
  \/ ScrollLands
  \/ \E p \in UserScrolls : UserScroll(p)

SpecScroll == InitWith(ScrollGeometries) /\ [][NextScroll]_vars

(***************************************************************************)
(* Properties                                                              *)
(***************************************************************************)
Range(f) == {f[i] : i \in DOMAIN f}
IsPrefix(a, b) == Len(a) <= Len(b) /\ \A i \in 1..Len(a) : a[i] = b[i]
Within(p, q, d) == Abs(p[1] - q[1]) <= d /\ Abs(p[2] - q[2]) <= d
IsQuotaError(m) == m.action = "screenshot-error" /\ Includes(m.error, QuotaToken)
IsOtherError(m) == m.action = "screenshot-error" /\ ~Includes(m.error, QuotaToken)
RepliesTo(kind, id) == {m \in delivered : m.req[1] = kind /\ m.req[2] = id}

\* The least n with n * b >= a
LeastCover(a, b) == CHOOSE n \in 0..a : n * b >= a /\ (n - 1) * b < a
PlanRows == LeastCover(geo.pageH, geo.vpH)
PlanCols == LeastCover(geo.pageW, geo.vpW)
RowMajorPlan ==
  [k \in 1..(PlanRows * PlanCols) |->
     <<((k - 1) % PlanCols) * geo.vpW, ((k - 1) \div PlanCols) * geo.vpH>>]

Superseded(id) == \E k \in FullIds : k > id /\ full[k].pc # "idle"

\* C2: a response to a request of a superseded call of captureFullPage is
\* never in the screenshot list of the call that superseded it and is never
\* counted by that call.
C2_StaleResponsesDiscarded ==
  /\ \A i \in 1..Len(screenshots) :
       screenshots[i].src[1] = "full" => ~Superseded(screenshots[i].src[2])
  /\ \A id \in FullIds : \A k \in 1..Len(full[id].counted) :
       full[id].counted[k][1] = "full" => full[id].counted[k][2] >= id

ActiveCaptures ==
  {<<"full", id>> : id \in {i \in FullIds : full[i].pc \in {"settling", "paced", "waiting"}}}
  \cup {<<"view", id>> : id \in {i \in ViewIds : view[i].pc = "awaiting"}}
  \cup {<<"region", id>> : id \in {i \in RegionIds :
          region[i].pc \in {"delay", "single", "rsettling", "rawait", "rpaced"}}}

\* C3: at most one capture at a time is issuing snapshot requests or
\* collecting snapshot responses.
C3_SingleFlight == Cardinality(ActiveCaptures) <= 1

\* Every request of the call has been answered, by snapshots or by rate-limit
\* errors only, and at least one answer is a rate-limit error
OnlyRateLimited(id) ==
  LET mine == RepliesTo("full", id) IN
    /\ Cardinality(mine) = Len(full[id].log)
    /\ \A m \in mine : m.action = "screenshot-captured" \/ IsQuotaError(m)
    /\ \E m \in mine : IsQuotaError(m)

\* C4: a full-page capture whose requests were all answered, some of them by
\* the rate-limit error and the others by snapshots, does not fail, and it has
\* requested every rate-limited tile again.
C4_RateLimitedTileRetried ==
  [][\A id \in FullIds :
       (full[id].pc = "waiting" /\ full'[id].pc # "waiting" /\ OnlyRateLimited(id))
         => /\ full'[id].pc # "failed"
            /\ \A m \in RepliesTo("full", id) : IsQuotaError(m) =>
                 \E n \in 1..Len(full[id].log) :
                   n > m.req[3] /\ full[id].log[n] = m.pos]_vars

C6_ToleranceOnEveryPath ==
  [][\A m \in inbox :
       (inbox' = inbox \ {m} /\ m.action = "screenshot-captured") =>
         /\ \A id \in ViewIds : <<"view", id>> \in Range(listeners) =>
              (Len(view'[id].appended) = Len(view[id].appended) + 1
                 <=> Within(m.pos, view[id].pos, 5))
         /\ \A id \in RegionIds : region[id].pc = "rawait" =>
              (region'[id].pc = "rpaced"
                 <=> Within(m.pos, RegionTileAt(region[id]), 5))
         /\ \A id \in RegionIds : region[id].pc = "single" =>
              (region'[id].pc = "cropping"
                 <=> Within(m.pos, region[id].shotAt, 5))
         /\ \A id \in FullIds : <<"full", id>> \in Range(listeners) =>
              (Len(full'[id].counted) = Len(full[id].counted) + 1
                 <=> \E n \in 1..Len(full[id].log) :
                       Within(m.pos, full[id].log[n], 5))]_vars

\* C7: captureFullPage waits while fewer than N responses are counted and
\* less than 30 s have passed; it fails only after the 30 s, with the Timeout
\* error that reports the count k < N and N, without a canvas or a drawing and
\* returning null; it composes only when all N responses were counted.
C7_TimeoutReportsPartial ==
  \A id \in FullIds :
    LET f == full[id] IN
      /\ f.pc = "waiting" => f.waitTime < WaitLimitMs
      /\ f.pc = "failed" =>
           /\ f.waitTime = WaitLimitMs
           /\ f.error.kind = "Timeout"
           /\ f.error.captured = f.capturedCount
           /\ f.error.total = Len(RowMajorPlan)
           /\ f.error.captured < f.error.total
           /\ f.ret = "null"
           /\ f.draws = <<>> /\ f.canvas = <<0, 0>>
      /\ f.pc \in {"combining", "done"} =>
           /\ f.capturedCount >= Len(RowMajorPlan)
           /\ f.waitTime <= WaitLimitMs
           /\ f.error = NoError
      /\ f.pc = "done" => f.ret = "dataUrl"

\* A capture of two tiles that failed after one response
C7_Witness ==
  \E id \in FullIds :
    /\ full[id].pc = "failed"
    /\ full[id].error.captured = 1
    /\ full[id].error.total = 2

\* C8: a full-page capture one of whose tiles was answered by an error other
\* than the rate limit ends as failed with that error, without a drawing.
C8_TileErrorFailsCapture ==
  [][\A id \in FullIds : \A m \in RepliesTo("full", id) :
       (full[id].pc = "waiting" /\ full'[id].pc # "waiting" /\ IsOtherError(m))
         => /\ full'[id].pc = "failed"
            /\ full'[id].error.msg = m.error
            /\ full'[id].draws = <<>>]_vars

\* C9: every tile of the composition is drawn at its origin: at
\* (0, row * vpH) for a plan of one column, at (originX, originY) otherwise.
\* Stated for the responses that arrive in the order of the requests; the
\* order of arrival is the subject of C10.
C9_TilesDrawnAtOrigin ==
  \A id \in FullIds :
    LET f == full[id] IN
      (\A k \in 1..Len(f.draws) : f.draws[k].src = <<"full", id, k>>)
      => \A k \in 1..Len(f.draws) :
           LET d == f.draws[k] IN
             IF f.cols = 1
             THEN d.x = 0 /\ d.y = (d.pos[2] \div geo.vpH) * geo.vpH
             ELSE d.x = d.pos[1] /\ d.y = d.pos[2]

\* C10: whatever the order in which the N responses arrived, a tile is drawn
\* where it is drawn when the responses arrive in the order of the requests.
C10_PlacementIgnoresArrivalOrder ==
  \A id \in FullIds :
    LET f == full[id] IN
      (/\ f.pc = "done"
       /\ Len(f.draws) = f.expected
       /\ {f.draws[k].src : k \in 1..Len(f.draws)}
            = {<<"full", id, n>> : n \in 1..f.expected})
      => \A k \in 1..Len(f.draws) :
           LET d == f.draws[k] IN
             <<d.x, d.y>> = CanvasPosition(d.src[3] - 1, [src |-> d.src, pos |-> d.pos])

\* C11: a full-page capture that has succeeded has composed a canvas of
\* pageWidth x pageHeight and has drawn exactly
\* N = ceil(pageH / vpH) * ceil(pageW / vpW) tiles onto it.
C11_CompositeHasPlanTiles ==
  \A id \in FullIds :
    full[id].pc = "done" =>
      /\ full[id].ret = "dataUrl"
      /\ full[id].canvas = <<geo.pageW, geo.pageH>>
      /\ Len(full[id].draws) = PlanRows * PlanCols

\* The intersection of the target rectangle with the viewport-sized cell of
\* origin (tx, ty), as its corners
Intersection(rect, tx, ty) ==
  [x1 |-> Max(rect.x, tx), y1 |-> Max(rect.y, ty),
   x2 |-> Min(rect.x + rect.width, tx + geo.vpW),
   y2 |-> Min(rect.y + rect.height, ty + geo.vpH)]
HasArea(i) == i.x2 > i.x1 /\ i.y2 > i.y1
MultiTile(r) == r.xTiles # <<>>

\* C12: the composition of a multi-tile region draws, for every captured tile
\* whose cell meets the target rectangle, exactly the intersection of the two:
\* taken from the tile at the intersection's offset in the cell (scaled by the
\* device pixel ratio), drawn at the intersection's offset in the rectangle
\* with the intersection's size; a tile that does not meet the rectangle is
\* skipped; so every drawing lies inside the output canvas.
C12_RegionDrawsIntersection ==
  \A id \in RegionIds :
    LET r == region[id]
        met == SelectSeq(r.tiles,
                 LAMBDA tl : HasArea(Intersection(r.rect, tl.x, tl.y)))
    IN  (r.pc = "done" /\ MultiTile(r)) =>
          /\ Len(r.draws) = Len(met)
          /\ \A k \in 1..Len(r.draws) :
               LET d == r.draws[k]
                   i == Intersection(r.rect, met[k].x, met[k].y)
               IN  /\ d.src = met[k].src
                   /\ d.dx = i.x1 - r.rect.x /\ d.dy = i.y1 - r.rect.y
                   /\ d.dw = i.x2 - i.x1 /\ d.dh = i.y2 - i.y1
                   /\ d.sx = (i.x1 - met[k].x) * geo.dpr
                   /\ d.sy = (i.y1 - met[k].y) * geo.dpr
                   /\ d.sw = d.dw * geo.dpr /\ d.sh = d.dh * geo.dpr
                   /\ d.dx >= 0 /\ d.dx + d.dw <= r.rect.width
                   /\ d.dy >= 0 /\ d.dy + d.dh <= r.rect.height

\* A region of four tiles has been composed, each tile drawn in part
C12_Witness ==
  \E id \in RegionIds :
    /\ region[id].pc = "done"
    /\ Len(region[id].draws) = 4
    /\ \A k \in 1..4 : region[id].draws[k].dw < geo.vpW
    /\ \E k \in 1..4 : region[id].draws[k].dx > 0 /\ region[id].draws[k].dy > 0

\* The starts of the cells on one axis: on the grid of the viewport size,
\* consecutive, the first one holding the start of the rectangle, and every
\* pixel of the rectangle's extent inside one of them
AxisPlanned(starts, from, extent, step) ==
  /\ Len(starts) >= 1
  /\ starts[1] % step = 0
  /\ starts[1] <= from /\ from < starts[1] + step
  /\ \A k \in 1..(Len(starts) - 1) : starts[k + 1] = starts[k] + step
  /\ \A px \in from..(from + extent - 1) :
       \E k \in 1..Len(starts) : starts[k] <= px /\ px < starts[k] + step

\* C13: the plan of a multi-tile region capture is made of cells of the
\* viewport-aligned grid, starting at (floor(rect.x / vpW) * vpW,
\* floor(rect.y / vpH) * vpH); every planned cell meets the rectangle with a
\* positive area and the planned cells cover the rectangle.
C13_RegionPlanCoversRect ==
  \A id \in RegionIds :
    LET r == region[id] IN
      MultiTile(r) =>
        /\ r.rect.width >= 5 /\ r.rect.height >= 5
        /\ AxisPlanned(r.xTiles, r.rect.x, r.rect.width, geo.vpW)
        /\ AxisPlanned(r.yTiles, r.rect.y, r.rect.height, geo.vpH)
        /\ \A i \in 1..Len(r.xTiles) : \A j \in 1..Len(r.yTiles) :
             HasArea(Intersection(r.rect, r.xTiles[i], r.yTiles[j]))

\* A rectangle from (4, 4) to (14, 14), planned as two by two cells
C13_Witness ==
  \E id \in RegionIds :
    /\ region[id].rect = [x |-> 4, y |-> 4, width |-> 10, height |-> 10]
    /\ region[id].xTiles = <<0, 10>>
    /\ region[id].yTiles = <<0, 10>>

\* The rectangle lies inside the viewport frame at scroll offset at
InsideViewport(rect, at) ==
  /\ at[1] <= rect.x /\ rect.x + rect.width <= at[1] + geo.vpW
  /\ at[2] <= rect.y /\ rect.y + rect.height <= at[2] + geo.vpH

\* The number of grid cells of size step that [from, from + extent) meets
CellsMet(from, extent, step) ==
  ((from + extent - 1) \div step) - (from \div step) + 1
SpansTwoByTwo(rect) ==
  /\ CellsMet(rect.x, rect.width, geo.vpW) = 2
  /\ CellsMet(rect.y, rect.height, geo.vpH) = 2

\* captureRegion has taken its decision between one snapshot and tiles
Decided(r) == r.pc \notin {"idle", "released", "tooSmall", "delay"}
\* The scroll offset at which it took it
DecidedAt(r) == IF MultiTile(r) THEN r.original ELSE r.shotAt

AxisNormalized(from, extent, a, b) ==
  /\ from <= a /\ from <= b /\ from \in {a, b}
  /\ extent >= 0 /\ extent \in {a - b, b - a}
  /\ from + extent >= a /\ from + extent >= b

\* C15: for the two drag points p1 and p2, getNormalizedRegion returns
\* x = min(p1.x, p2.x), y = min(p1.y, p2.y), width = |p1.x - p2.x| and
\* height = |p1.y - p2.y|: the sides are not negative and the result is the
\* same for (p2, p1); (10, 80) and (90, 20) give x 10, y 20, width 80 and
\* height 60.  The rectangle of the selection box is that of regionStart and
\* regionCurrent.
C15_NormalizedRegion ==
  /\ GetNormalizedRegion(<<10, 80>>, <<90, 20>>)
       = [x |-> 10, y |-> 20, width |-> 80, height |-> 60]
  /\ sel.start # Null =>
       /\ AxisNormalized(sel.box.x, sel.box.width, sel.start[1], sel.current[1])
       /\ AxisNormalized(sel.box.y, sel.box.height, sel.start[2], sel.current[2])
       /\ sel.box = GetNormalizedRegion(sel.current, sel.start)

\* A drag from (14, 14) up and to the left, to (4, 9)
C15_Witness ==
  /\ sel.start = <<14, 14>>
  /\ sel.current = <<4, 9>>
  /\ sel.box = [x |-> 4, y |-> 9, width |-> 10, height |-> 5]

\* The snapshot requests of a region capture, answered or not
RegionRequests(id) ==
  {q \in bgq : q.req[1] = "region" /\ q.req[2] = id}
  \cup {m \in inbox \cup delivered : m.req[1] = "region" /\ m.req[2] = id}

\* C16: after the mouse-up of a selection whose rectangle has a width or a
\* height below 5, the selection is dropped as too small: captureRegion is not
\* called and no snapshot request is made; when both are at least 5,
\* captureRegion is called exactly once with that rectangle; before the end
\* of the 80 ms that follow the mouse-up nothing is requested.
C16_SmallSelectionRejected ==
  \A id \in RegionIds :
    LET r == region[id]
        small == r.rect.width < 5 \/ r.rect.height < 5
    IN  /\ r.pc \in {"idle", "released"} => r.calls = 0 /\ RegionRequests(id) = {}
        /\ r.pc \notin {"idle", "released"} =>
             IF small
             THEN r.pc = "tooSmall" /\ r.calls = 0 /\ r.log = <<>>
                  /\ RegionRequests(id) = {}
             ELSE r.pc # "tooSmall" /\ r.calls = 1

\* A selection 4 px wide and 9 px high has been dropped
C16_Witness ==
  \E id \in RegionIds :
    /\ region[id].pc = "tooSmall"
    /\ region[id].rect.width = 4
    /\ region[id].rect.height = 9

\* C17: Escape during a region selection ends the selection without any
\* snapshot request and without any capture: afterwards regionActive is
\* false, the four listeners are removed and the drag is forgotten; and a
\* capture starts only from a mouse-up in a selection that is listening, so
\* never from a mouse-up after the Escape.
C17_EscapeCancelsSelection ==
  [][/\ sel'.ended = "escape" =>
          /\ ~sel'.active /\ ~sel'.listening
          /\ sel'.start = Null /\ sel'.current = Null /\ sel'.box = Null
     /\ (sel.ended # "escape" /\ sel'.ended = "escape") =>
          /\ sel.listening
          /\ region' = region /\ bgq' = bgq /\ inbox' = inbox
          /\ listeners' = listeners /\ scroll' = scroll
     /\ \A id \in RegionIds :
          (region[id].pc = "idle" /\ region'[id].pc # "idle") =>
            /\ sel.listening /\ sel.ended = "none"
            /\ sel.start # Null]_vars

\* The first selection was cancelled with Escape: nothing was captured
C17_Witness ==
  /\ sel.ended = "escape"
  /\ sel.sessions = 1
  /\ \A id \in RegionIds : region[id].pc = "idle"
  /\ bgq = {} /\ inbox = {} /\ delivered = {}

\* The position is within 10 px of the target, or at the end of the
\* scrollable range, on both axes
CloseEnough(pos, target) ==
  /\ (pos[1] - target[1] \in -9..9) \/ pos[1] >= geo.pageW - geo.vpW
  /\ (pos[2] - target[2] \in -9..9) \/ pos[2] >= geo.pageH - geo.vpH

TileSteps == <<"scrollTo", "scrolled", "settled", "request">>
ExpectedEvents(plan) ==
  [n \in 1..(4 * Len(plan)) |->
     [e |-> TileSteps[((n - 1) % 4) + 1], at |-> plan[((n - 1) \div 4) + 1]]]

\* The cells of a region plan in the order of its loops: rows, then columns
RegionPlan(r) ==
  [k \in 1..(Len(r.xTiles) * Len(r.yTiles)) |->
     <<r.xTiles[((k - 1) % Len(r.xTiles)) + 1],
       r.yTiles[((k - 1) \div Len(r.xTiles)) + 1]>>]

RequestsOf(events) == SelectSeq(events, LAMBDA ev : ev.e = "request")

C20_RequestsSpacedApart ==
  /\ \A id \in FullIds :
       /\ Len(full[id].gaps) = Max(0, Len(full[id].log) - 1)
       /\ \A k \in 1..Len(full[id].gaps) : full[id].gaps[k] >= 700
  /\ \A id \in RegionIds :
       MultiTile(region[id]) =>
         /\ Len(region[id].gaps) = Max(0, Len(region[id].log) - 1)
         /\ \A k \in 1..Len(region[id].gaps) : region[id].gaps[k] >= 700

\* A full-page capture and a region capture have both sent a second request
C20_Witness ==
  /\ \E id \in FullIds : Len(full[id].gaps) = 1 /\ full[id].gaps[1] = 1000
  /\ \E id \in RegionIds : Len(region[id].gaps) = 1 /\ region[id].gaps[1] = 900

\* C21: at any moment at most one snapshot request is outstanding, sent to
\* the background and not yet answered with screenshot-captured or
\* screenshot-error: a tiled capture sends the request of its next tile only
\* after the previous request has been answered.
C21_OneRequestOutstanding == Cardinality(bgq) <= 1

\* C27: once captureFullPage has failed and returned null, the list of
\* captured screenshots of the handler is empty.
C27_FailedCaptureHoldsNoTiles ==
  \A id \in FullIds :
    (full[id].pc = "failed" /\ full[id].ret = "null") => screenshots = <<>>

\* C28: a full-page capture that ends without its N responses after one of
\* its requests was answered by the rate-limit error takes the fallback to a
\* visible-area capture instead of failing.
C28_RateLimitFallsBackToVisibleArea ==
  [][\A id \in FullIds :
       (/\ full[id].pc = "waiting" /\ full'[id].pc # "waiting"
        /\ full'[id].capturedCount < full'[id].expected
        /\ \E m \in RepliesTo("full", id) : IsQuotaError(m))
         => full'[id].pc = "fallback"]_vars

C22_OffscreenDocumentTornDown ==
  \A id \in ClipIds :
    LET c == clip.calls[id] IN
      /\ (c.pc = "returned" /\ c.created) => c.tornDown /\ clip.doc # id
      /\ (c.pc = "returned" /\ c.outcome \in {"success", "failure", "noResponse",
                                                "sendError", "timeout"})
           => c.created /\ c.tornDown
      /\ c.pc = "returned" =>
           c.outcome \in {"success", "failure", "noResponse", "sendError",
                          "timeout", "createError", "fetchError", "noApi"}

\* A call that ended by the timeout and a call that ended by a success
\* response have both returned, their documents created and torn down
C22_Witness ==
  /\ \E id \in ClipIds :
       /\ clip.calls[id].pc = "returned" /\ clip.calls[id].outcome = "timeout"
       /\ clip.calls[id].created /\ clip.calls[id].tornDown
  /\ \E id \in ClipIds :
       /\ clip.calls[id].pc = "returned" /\ clip.calls[id].outcome = "success"
       /\ clip.calls[id].created /\ clip.calls[id].tornDown

\* C23: copyToClipboardInBackground never throws, and it returns true if and
\* only if the offscreen document answered success within the 10 s: it
\* returns false without the offscreen API, after an error of createDocument
\* or of sendMessage, after a failure answer and after the timeout.
C23_TrueIffOffscreenSucceeded ==
  \A id \in ClipIds :
    LET c == clip.calls[id] IN
      c.pc = "returned" =>
        /\ c.ret \in {"true", "false"}
        /\ c.ret = "true" <=> c.answered = "success"
        /\ c.outcome \in {"noApi", "fetchError", "createError", "sendError",
                          "failure", "timeout"} => c.ret = "false"

\* C24: the download of a result is invoked only after the direct clipboard
\* write and the clipboard write of the offscreen document have both been
\* attempted and have failed, and with a file name <kind>-<timestamp>.png.
C24_SaveOnlyAfterClipboardFailed ==
  \A id \in OverlayIds : \A k \in 1..Len(overlay[id].downloads) :
    /\ overlay[id].failures >= 1
    /\ \E c \in ClipIds :
         /\ clip.calls[c].pc = "returned"
         /\ clip.calls[c].created
         /\ clip.calls[c].ret = "false"
    /\ \E now \in Clock :
         overlay[id].downloads[k] = <<overlay[id].filenameBase, "-", now, ".png">>

\* C25: a clipboard write of a result overlay starts only by a click on its
\* enabled Copy button, never when the overlay is shown, and the button is
\* disabled while the write is in progress: at most one write of an overlay
\* is in flight.
C25_CopyOnlyOnClickOneInFlight ==
  /\ [](\A id \in OverlayIds :
          /\ overlay[id].writes <= 1
          /\ overlay[id].writes = 1 => overlay[id].copyDisabled
          /\ overlay[id].attempts =
               overlay[id].writes + overlay[id].copied + overlay[id].failures)
  /\ [][\A id \in OverlayIds :
          /\ (overlay[id].pc = "idle" /\ overlay'[id].pc # "idle")
               => overlay'[id].attempts = 0 /\ overlay'[id].writes = 0
          /\ overlay'[id].attempts # overlay[id].attempts
               => /\ overlay[id].open /\ ~overlay[id].copyDisabled
                  /\ overlay[id].writes = 0
                  /\ overlay'[id].attempts = overlay[id].attempts + 1
                  /\ overlay'[id].copyDisabled]_vars

\* A second copy of an overlay is in progress, after the first one failed
C25_Witness ==
  \E id \in OverlayIds :
    /\ overlay[id].writes = 1 /\ overlay[id].copyDisabled
    /\ overlay[id].attempts = 2 /\ overlay[id].failures = 1

\* C26: a copy that fails leaves the overlay as open as it was, with its
\* image, and enables the Copy button again; an overlay is removed only by
\* the timer of a successful copy, by Close or by a click on the backdrop.
C26_FailedCopyKeepsOverlay ==
  /\ [](\A id \in OverlayIds :
          /\ overlay[id].pc # "idle" =>
               overlay[id].dataUrl = <<overlay[id].filenameBase, id>>
          /\ (overlay[id].pc # "idle" /\ ~overlay[id].open) =>
               /\ overlay[id].removedBy \in {"copied", "close", "backdrop"}
               /\ overlay[id].removedBy = "copied" => overlay[id].copied >= 1
          /\ overlay[id].open => overlay[id].removedBy = "none")
  /\ [][\A id \in OverlayIds :
          overlay'[id].failures # overlay[id].failures
            => /\ overlay'[id].open = overlay[id].open
               /\ ~overlay'[id].copyDisabled
               /\ overlay'[id].dataUrl = overlay[id].dataUrl
               /\ overlay'[id].downloads = overlay[id].downloads]_vars

\* After a failed copy the overlay is open, Copy is enabled and the image has
\* been downloaded
C26_Witness ==
  \E id \in OverlayIds :
    /\ overlay[id].failures = 1 /\ overlay[id].copied = 0
    /\ overlay[id].open /\ ~overlay[id].copyDisabled
    /\ overlay[id].status = "Downloaded."
    /\ Len(overlay[id].downloads) = 1

\* C30: after the user has chosen Capture Region in the popup, the listener
\* of the content script eventually handles capture-region, that is it calls
\* startRegionSelection.
C30_RegionChoiceStartsSelection ==
  (route.regions > 0) ~> (\E m \in route.handled : m.action = "capture-region")

\* C31: every copy-to-clipboard request of a content script is answered by the
\* background with exactly one message, clipboard-success or clipboard-error,
\* sent to the tab of the request and to no other: at no time have two
\* messages been sent for one request, and every request that was sent leads
\* to the success or error notification in its tab, after its "Copying to
\* clipboard..." notification.
ClipboardMessages == clip.replies \cup clip.received
AnswersTo(n) == {m \in ClipboardMessages : clip.calls[m.call].request = n}
NotifiedAfterInfo(n) ==
  LET tab == clip.asked[n]
      notes == clip.notes[tab]
  IN  \E i, j \in 1..Len(notes) :
        /\ i < j
        /\ notes[i].type = "info"
        /\ notes[j].type \in {"success", "error"}
        /\ notes[j].call # 0 /\ clip.calls[notes[j].call].request = n
C31_ClipboardRequestAnswered ==
  /\ [](\A n \in 1..Len(clip.asked) :
          /\ Cardinality(AnswersTo(n)) <= 1
          /\ \A m \in AnswersTo(n) :
               /\ m.tab = clip.asked[n]
               /\ m.action \in {"clipboard-success", "clipboard-error"}
               /\ clip.calls[m.call].pc = "returned"
               /\ m.action = "clipboard-success" <=> clip.calls[m.call].ret = "true")
  /\ \A n \in 1..MaxClip :
       (Len(clip.asked) >= n) ~>
         (Cardinality(AnswersTo(n) \cap clip.received) = 1 /\ NotifiedAfterInfo(n))

\* Two tabs have asked; one has been told of a success, the other of an error
C31_Witness ==
  /\ Len(clip.asked) = 2 /\ clip.asked[1] # clip.asked[2]
  /\ \E m1, m2 \in clip.received :
       /\ m1.tab = clip.asked[1] /\ m1.action = "clipboard-success"
       /\ m2.tab = clip.asked[2] /\ m2.action = "clipboard-error"
       /\ clip.calls[m2.call].outcome = "timeout"
  /\ NotifiedAfterInfo(1) /\ NotifiedAfterInfo(2)

\* C32: a call of captureVisibleArea or of captureVisibleAreaOverlay made
\* while isCapturing is true returns at once: it sends no snapshot request
\* and leaves the screenshot list, isCapturing and the registered listeners
\* as they were.
C32_BusyCallLeavesStateAlone ==
  [][\A id \in ViewIds :
       (view[id].pc = "idle" /\ view'[id].pc # "idle" /\ isCapturing) =>
         /\ view'[id].pc = "refused"
         /\ view'[id].mode \in {"overlay", "clipboard"}
         /\ bgq' = bgq
         /\ screenshots' = screenshots
         /\ isCapturing' = isCapturing
         /\ listeners' = listeners]_vars

\* captureVisibleArea has been called during a capture that is still waiting
\* for its response, and nothing was asked for it
C32_Witness ==
  /\ \E id \in ViewIds : view[id].pc = "refused" /\ view[id].mode = "clipboard"
                         /\ view[id].attempts = 0
  /\ isCapturing
  /\ \E id \in ViewIds : view[id].pc = "awaiting"

\* C33: once a call of captureCurrentView has settled (resolved, rejected by
\* an error of the primitive or by its 15 s timer) and once a call of
\* captureFullPage has returned, the listener of the call is not registered
\* any more, and the screenshot list never holds one response twice.
C33_SettledCallHasNoListener ==
  /\ \A id \in ViewIds :
       view[id].pc \in {"done", "failed"} => <<"view", id>> \notin Range(listeners)
  /\ \A id \in FullIds :
       full[id].ret # "pending" => <<"full", id>> \notin Range(listeners)
  /\ \A i, j \in 1..Len(screenshots) :
       i # j => screenshots[i].src # screenshots[j].src

\* C34: a superseded capture that finishes leaves the capture that superseded
\* it alone: while the newest call of captureFullPage is running, isCapturing
\* is true, and every snapshot that reaches the tab in answer to a request of
\* that call, while its listener is registered, is counted by it.
Running(id) == full[id].pc \in {"settling", "rendering", "paced", "waiting", "combining"}
Newest(id) == full[id].pc # "idle" /\ \A j \in FullIds : j > id => full[j].pc = "idle"
C34_NewestCaptureUndisturbed ==
  /\ [](\A id \in FullIds : (Newest(id) /\ Running(id)) => isCapturing)
  /\ [][\A id \in FullIds : \A m \in inbox :
         (/\ Newest(id) /\ Running(id)
          /\ <<"full", id>> \in Range(listeners)
          /\ inbox' = inbox \ {m}
          /\ m.action = "screenshot-captured"
          /\ m.req[1] = "full" /\ m.req[2] = id)
         => full'[id].capturedCount = full[id].capturedCount + 1]_vars

\* C35: every call of captureFullPage, captureVisibleAreaOverlay and
\* captureVisibleArea that has set isCapturing ends, whether its requests are
\* answered by snapshots, by errors or not at all; the step that ends it
\* leaves isCapturing false, and isCapturing does not stay true for ever.
FullEnded(id) == full[id].pc \in {"done", "failed"}
ViewEnded(id) == view[id].pc \in {"done", "failed"}
C35_CapturesTerminate ==
  /\ \A id \in FullIds : (full[id].pc # "idle") ~> FullEnded(id)
  /\ \A id \in ViewIds : (view[id].pc = "awaiting") ~> ViewEnded(id)
  /\ [][/\ \A id \in FullIds : (~FullEnded(id) /\ FullEnded(id)') => ~isCapturing'
        /\ \A id \in ViewIds : (~ViewEnded(id) /\ ViewEnded(id)') => ~isCapturing']_vars
  /\ isCapturing ~> ~isCapturing

\* A call of captureVisibleArea has failed by its 15 s timer and, after it, a
\* full-page capture whose request was never answered by its timeout:
\* isCapturing is false again
C35_Witness ==
  /\ ~isCapturing
  /\ full[1].pc = "failed" /\ full[1].error.kind = "Timeout"
  /\ full[1].capturedCount = 0 /\ bgq # {}
  /\ view[1].pc = "failed" /\ view[1].error = <<"Screenshot capture timeout">>
  /\ view[1].mode = "clipboard"

\* C36: a region capture of several tiles whose requests are all answered, by
\* snapshots or by errors, ends: it restores the scroll position and shows
\* its result, or it reports the failure.
C36_TiledRegionCaptureEnds ==
  \A id \in RegionIds :
    (region[id].pc = "rsettling") ~>
      \/ region[id].pc = "done" /\ region[id].shown
      \/ region[id].pc = "failed"

\* C37: after captureFullPage has returned, with the image or with null, the
\* window is scrolled to the position it had when the capture started.
C37_ScrollRestoredOnReturn ==
  \A id \in FullIds :
    full[id].ret # "pending" => scroll = originalScrollPosition

\* C38: while a call of captureFullPage is running, the screenshot list and
\* the count the call reports as its progress hold at most N entries, N the
\* number of planned tiles; the count never decreases; and when the call
\* starts the composition the list holds one entry for every planned tile
\* and no other.
CompositionStarts(id) ==
  /\ full[id].pc \in {"paced", "waiting"}
  /\ full'[id].pc \in {"combining", "done"}
OnePerPlannedTile(shots) ==
  /\ Len(shots) = PlanRows * PlanCols
  /\ \A k \in 1..(PlanRows * PlanCols) :
       Cardinality({i \in 1..Len(shots) : shots[i].pos = RowMajorPlan[k]}) = 1
C38_CountsWithinPlan ==
  /\ [](\A id \in FullIds :
          Running(id) => /\ Len(screenshots) <= full[id].expected
                         /\ full[id].capturedCount <= full[id].expected)
  /\ [][\A id \in FullIds :
         /\ full'[id].capturedCount >= full[id].capturedCount
         /\ CompositionStarts(id) => OnePerPlannedTile(screenshots')]_vars

\* C39: for every capture-visible-area request of a tab the background sends
\* one reply and no more, to the tab that sent the request and to no other:
\* screenshot-captured with the scrollPosition of the request, or
\* screenshot-error.
SnapshotReplies == inbox \cup delivered \cup route.got
SentBy(req) ==
  IF req[1] = "full"
  THEN [tab |-> ContentTab, pos |-> full[req[2]].log[req[3]]]
  ELSE route.snapshots[req[3]]
C39_OneReplyToTheSender ==
  /\ \A m \in SnapshotReplies :
       /\ m.action \in {"screenshot-captured", "screenshot-error"}
       /\ m.tab = SentBy(m.req).tab
       /\ m.action = "screenshot-captured" => m.pos = SentBy(m.req).pos
       /\ \A q \in bgq : q.req # m.req
  /\ \A m1, m2 \in SnapshotReplies : m1.req = m2.req => m1 = m2
  /\ \A id \in FullIds : \A n \in 1..Len(full[id].log) :
       \/ \E q \in bgq : q.req = <<"full", id, n>>
       \/ \E m \in SnapshotReplies : m.req = <<"full", id, n>>
  /\ \A n \in 1..Len(route.snapshots) :
       \/ \E q \in bgq : q.req = <<"tab", route.snapshots[n].tab, n>>
       \/ \E m \in SnapshotReplies : m.req = <<"tab", route.snapshots[n].tab, n>>
  /\ \A m \in delivered : m.tab = ContentTab
  /\ \A m \in route.got : m.tab # ContentTab

\* Both tabs have their answers: the capturing tab a snapshot for its second
\* tile, the other tab a snapshot for the position it asked for and an error
C39_Witness ==
  /\ \E m \in delivered :
       m.action = "screenshot-captured" /\ m.req = <<"full", 1, 2>> /\ m.pos = <<10, 0>>
  /\ \E m1, m2 \in route.got :
       /\ m1.action = "screenshot-captured" /\ m1.pos = <<0, 10>>
       /\ m2.action = "screenshot-error"

\* C40: with two copy-to-clipboard requests whose steps interleave, at most
\* one offscreen document exists at any time, no step of a request closes the
\* offscreen document that another request is still awaiting the answer of,
\* and no offscreen document remains once both requests have returned.
Awaiting(calls, doc, id) == calls[id].pc = "racing" /\ doc = id
DocumentsOf(doc) == {id \in ClipIds : doc = id}
C40_DocumentOfAwaitingCallKept ==
  /\ [](Cardinality(DocumentsOf(clip.doc)) <= 1)
  /\ []((\A id \in ClipIds : clip.calls[id].pc = "returned") => clip.doc = 0)
  /\ [][\A id \in ClipIds :
         (Awaiting(clip.calls, clip.doc, id) /\ clip'.calls[id].pc = "racing")
           => clip'.doc = id]_vars
====
